---- MODULE Spec2Model ----
(***************************************************************************)
(* AgriSense: the hybrid query and retrieval engine.                       *)
(*   backend/models/llm_rag.py    RAGPipeline  (vector index, retrieval,   *)
(*                                context, confidence, answer generation)  *)
(*   backend/models/datafusion.py DataFusion   (dataset registry)          *)
(* Distances, similarities and thresholds are fixed-point numbers: the     *)
(* integer v stands for v / Scale.  A confidence is the exact rational     *)
(* num / den.                                                              *)
(***************************************************************************)
EXTENDS Integers, Sequences, FiniteSets, TLC

VARIABLES
    chroma,                \* chroma_client: collection name -> [exists, docs]
    collections,           \* RAGPipeline.collections: the names it holds a handle for
    similarity_threshold,  \* RAGPipeline.similarity_threshold (in 1/Scale)
    top_k,                 \* RAGPipeline.top_k
    rq,                    \* the rag_query call in progress: position and locals
    adders,                \* the add_documents calls in progress: position and locals
    datasets,              \* DataFusion.datasets: name -> DataFrame
    metadata,              \* DataFusion.metadata: name -> metadata record
    reg_log,               \* history: the register_dataset calls made, in order
    last_call,             \* history: the last DataFusion query made and its result
    pager,                 \* the fetch_paginated call in progress: position and locals
    ingest,                \* the index_data requests: request and response of each
    last_index             \* history: the last index operation made and its effect

ragVars == <<chroma, collections, similarity_threshold, top_k, rq>>
addVars == <<adders>>
regVars == <<datasets, metadata, reg_log, last_call>>
ingestVars == <<pager, ingest, last_index>>
vars == <<chroma, collections, similarity_threshold, top_k, rq,
          adders, datasets, metadata, reg_log, last_call,
          pager, ingest, last_index>>

----------------------------------------------------------------------------
(* Bounds of the model *)

\* resolution of the fixed-point numbers: 1.0 is Scale units
Scale == 2
\* most documents a collection holds
MaxDocs == 2
\* largest n_results a caller passes
MaxTopK == 2

----------------------------------------------------------------------------
(* Values *)

\* Python's None, by the type of the value it stands in for
None == "None"
NoneRec == [none |-> TRUE]
NoList == <<>>

CollNames == {"gov_datasets"}

\* a document's metadata mapping: with a 'dataset' key or without one
NoMeta == [has_dataset |-> FALSE, dataset |-> ""]
Meta(ds) == [has_dataset |-> TRUE, dataset |-> ds]

\* cosine distance 1 - cos lies in [0, 2]
Distances == 0..(2 * Scale)
\* cosine similarity lies in [-1, 1]: the thresholds that can be configured
Thresholds == (0 - Scale)..Scale

\* config.TOP_K_RESULTS, the default of top_k
TOP_K_RESULTS == 5

Min(a, b) == IF a <= b THEN a ELSE b

RECURSIVE SumSeq(_)
SumSeq(s) == IF s = <<>> THEN 0 ELSE Head(s) + SumSeq(Tail(s))

DocId(n) == "doc_" \o ToString(n)

----------------------------------------------------------------------------
(* The vector index backend (chromadb) *)

NoCollection == [exists |-> FALSE, docs |-> <<>>]

\* chroma_client.delete_collection: raises when the name is absent
DeleteCollection(store, c) == [store EXCEPT ![c] = NoCollection]

\* variant: get_collection, which does not create what is missing
GetCollectionOnly(store, c) == store

\* chroma_client.get_or_create_collection
GetOrCreateCollection(store, c) ==
    IF store[c].exists THEN store
    ELSE [store EXCEPT ![c] = [exists |-> TRUE, docs |-> <<>>]]

\* collection.count()
Count(store, c) == Len(store[c].docs)

\* collection.query: the n nearest documents, nearest first.  Every ranking
\* of distinct documents with non-decreasing distances is a possible answer.
IndexResponses(docs, n) ==
    LET k == Min(n, Len(docs))
    IN  { [i \in 1..k |-> [id       |-> docs[p[i]].id,
                           document |-> docs[p[i]].document,
                           metadata |-> docs[p[i]].metadata,
                           distance |-> d[i]]] :
            p \in { q \in [1..k -> DOMAIN docs] :
                      \A i, j \in 1..k : i # j => q[i] # q[j] },
            d \in { e \in [1..k -> Distances] :
                      \A i \in 1..k : i < k => e[i] <= e[i + 1] } }

----------------------------------------------------------------------------
(* RAGPipeline.create_collection *)

\* delFail: delete_collection raised (swallowed by the bare except)
CreateCollectionStore(store, c, recreate, delFail) ==
    GetOrCreateCollection(
        IF recreate /\ ~delFail /\ store[c].exists
        THEN DeleteCollection(store, c) ELSE store, c)

----------------------------------------------------------------------------
(* RAGPipeline.query *)

EmptyResults == [documents |-> <<>>, metadatas |-> <<>>,
                 distances |-> <<>>, ids |-> <<>>]

\* n_results = n_results or self.top_k   (None and 0 are both falsy: 0 here)
NResults(n, k) == IF n = 0 THEN k ELSE n

Similarity(distance) == Scale - distance

\* variant: a result is kept when its similarity is at most the threshold
KeepsAtMost(distance, t) == Similarity(distance) <= t

\* variant: the threshold compared with the raw distance
KeepsByDistance(distance, t) == distance >= t

Keeps(distance, t) == Similarity(distance) >= t

\* variant: each survivor is put in front of the ones found so far
RECURSIVE FilterPrepending(_, _)
FilterPrepending(results, t) ==
    IF results = <<>> THEN EmptyResults
    ELSE LET r == Head(results)
             rest == FilterPrepending(Tail(results), t)
         IN  IF Keeps(r.distance, t)
             THEN [documents |-> rest.documents \o <<r.document>>,
                   metadatas |-> rest.metadatas \o <<r.metadata>>,
                   distances |-> rest.distances \o <<r.distance>>,
                   ids       |-> rest.ids \o <<r.id>>]
             ELSE rest

RECURSIVE FilterByThreshold(_, _)
FilterByThreshold(results, t) ==
    IF results = <<>> THEN EmptyResults
    ELSE LET r == Head(results)
             rest == FilterByThreshold(Tail(results), t)
         IN  IF Keeps(r.distance, t)
             THEN [documents |-> <<r.document>> \o rest.documents,
                   metadatas |-> <<r.metadata>> \o rest.metadatas,
                   distances |-> <<r.distance>> \o rest.distances,
                   ids       |-> <<r.id>> \o rest.ids]
             ELSE rest

----------------------------------------------------------------------------
(* RAGPipeline.generate_response *)

\* what text_generation can return: token sequences, " " is whitespace
RawOutputs == {<<"yield rose">>, <<" ", "yield rose", " ">>}
LlmErrors == {"timeout"}

RECURSIVE LStrip(_)
LStrip(s) == IF s # <<>> /\ Head(s) = " " THEN LStrip(Tail(s)) ELSE s

RECURSIVE RStrip(_)
RStrip(s) == IF s # <<>> /\ s[Len(s)] = " "
             THEN RStrip(SubSeq(s, 1, Len(s) - 1)) ELSE s

Strip(s) == RStrip(LStrip(s))

\* the value generate_response returns: always a str
GenerateResponse(failed, raw, err) ==
    IF failed THEN <<"Error generating response: ", err>>
    ELSE Strip(raw)

----------------------------------------------------------------------------
(* RAGPipeline.rag_query *)

NoInfoAnswer == <<"I couldn't find relevant information in the available datasets to answer this question.">>

Zero == [num |-> 0, den |-> 1]

NoInfoResult == [answer |-> NoInfoAnswer, sources |-> <<>>,
                 context |-> <<>>, confidence |-> Zero]

\* variant: the early return is never taken
NeverEmptyRetrieval(results) == FALSE

\* if not retrieval_results['documents']
IsEmptyRetrieval(results) == results.documents = <<>>

DatasetOf(meta) == IF meta.has_dataset THEN meta.dataset ELSE "Unknown"

\* variant: the sections are numbered from 0
BuildContextFromZero(results) ==
    [i \in 1..Min(Len(results.documents), Len(results.metadatas)) |->
        [source |-> i - 1,
         dataset |-> DatasetOf(results.metadatas[i]),
         document |-> results.documents[i]]]

\* one section "[Source i - dataset]\n doc \n" per document, joined in order
BuildContext(results) ==
    [i \in 1..Min(Len(results.documents), Len(results.metadatas)) |->
        [source |-> i,
         dataset |-> DatasetOf(results.metadatas[i]),
         document |-> results.documents[i]]]

\* variant: the sum is not divided by the number of distances
ConfidenceNoMean(distances) ==
    IF distances # <<>>
    THEN [num |-> Scale - SumSeq(distances), den |-> Scale]
    ELSE Zero

\* variant: the mean distance itself is reported
ConfidenceIsMeanDistance(distances) ==
    IF distances # <<>>
    THEN [num |-> SumSeq(distances), den |-> Len(distances) * Scale]
    ELSE Zero

\* 1 - sum(distances) / len(distances), or 0.0 for no distances
Confidence(distances) ==
    IF distances # <<>>
    THEN [num |-> Len(distances) * Scale - SumSeq(distances),
          den |-> Len(distances) * Scale]
    ELSE Zero

ConfidenceInput(results) == results.distances

FinalResult(answer, results, context) ==
    [answer      |-> answer,
     sources     |-> results.metadatas,
     context     |-> context,
     confidence  |-> Confidence(ConfidenceInput(results)),
     num_sources |-> Len(results.documents)]

\* absent_before, had_handle, fault, backend_failed, response, llm_failed,
\* llm_calls and steps are history: what happened, which the code does not keep
IdleRq == [pc |-> "idle", collection |-> None, absent_before |-> FALSE,
           had_handle |-> FALSE, fault |-> FALSE,
           backend_failed |-> FALSE, response |-> <<>>,
           results |-> EmptyResults, context |-> <<>>, answer |-> <<>>,
           llm_failed |-> FALSE, llm_calls |-> 0, steps |-> <<>>,
           outcome |-> None, result |-> NoneRec]

\* lines 314-322: self.query(...) and the return taken when nothing was retrieved
RagRetrieve ==
    /\ rq.pc = "idle"
    /\ \E c \in CollNames, n \in 0..MaxTopK,
          createFail \in BOOLEAN, backendFail \in BOOLEAN :
         LET create  == c \notin collections
             created == create /\ ~createFail
             store1  == IF created THEN CreateCollectionStore(chroma, c, FALSE, FALSE)
                        ELSE chroma
             fault   == (create /\ createFail) \/ backendFail
             \* any exception of lines 192-206 is caught at line 228
             failed  == fault \/ ~store1[c].exists
         IN  \E resp \in (IF failed THEN {<<>>}
                          ELSE IndexResponses(store1[c].docs, NResults(n, top_k))) :
               LET results == IF failed THEN EmptyResults
                              ELSE FilterByThreshold(resp, similarity_threshold)
                   base == [rq EXCEPT !.collection = c,
                                      !.absent_before = ~chroma[c].exists,
                                      !.had_handle = ~create,
                                      !.fault = fault,
                                      !.backend_failed = failed,
                                      !.response = resp,
                                      !.results = results,
                                      !.steps = <<"retrieve">>]
               IN  /\ chroma' = store1
                   /\ collections' = IF created THEN collections \cup {c}
                                     ELSE collections
                   /\ rq' = IF IsEmptyRetrieval(results)
                            THEN [base EXCEPT !.pc = "done",
                                              !.outcome = "returned",
                                              !.result = NoInfoResult]
                            ELSE [base EXCEPT !.pc = "retrieved"]
    /\ UNCHANGED <<similarity_threshold, top_k>>
    /\ UNCHANGED addVars
    /\ UNCHANGED regVars
    /\ UNCHANGED ingestVars

\* lines 324-333
RagAssemble ==
    /\ rq.pc = "retrieved"
    /\ rq' = [rq EXCEPT !.pc = "assembled",
                        !.context = BuildContext(rq.results),
                        !.steps = Append(@, "assemble")]
    /\ UNCHANGED <<chroma, collections, similarity_threshold, top_k>>
    /\ UNCHANGED addVars
    /\ UNCHANGED regVars
    /\ UNCHANGED ingestVars

\* line 336: generate_response, lines 253-292
RagGenerate ==
    /\ rq.pc = "assembled"
    /\ \E failed \in BOOLEAN, raw \in RawOutputs, err \in LlmErrors :
         rq' = [rq EXCEPT !.pc = "generated",
                          !.answer = GenerateResponse(failed, raw, err),
                          !.llm_failed = failed,
                          !.llm_calls = @ + 1,
                          !.steps = Append(@, "generate")]
    /\ UNCHANGED <<chroma, collections, similarity_threshold, top_k>>
    /\ UNCHANGED addVars
    /\ UNCHANGED regVars
    /\ UNCHANGED ingestVars

\* lines 338-351
RagReturn ==
    /\ rq.pc = "generated"
    /\ rq' = [rq EXCEPT !.pc = "done",
                        !.outcome = "returned",
                        !.result = FinalResult(rq.answer, rq.results, rq.context),
                        !.steps = Append(@, "confidence")]
    /\ UNCHANGED <<chroma, collections, similarity_threshold, top_k>>
    /\ UNCHANGED addVars
    /\ UNCHANGED regVars
    /\ UNCHANGED ingestVars

\* the caller takes the result; the next question may arrive
RagNext ==
    /\ rq.pc = "done"
    /\ rq' = IdleRq
    /\ UNCHANGED <<chroma, collections, similarity_threshold, top_k>>
    /\ UNCHANGED addVars
    /\ UNCHANGED regVars
    /\ UNCHANGED ingestVars

----------------------------------------------------------------------------
(* RAGPipeline.create_collection, as an operation of its own.  rag_query    *)
(* reads the index in its first step only, so a change of the index during *)
(* its later steps has the effect of the same change made after them: the  *)
(* index operations are taken between questions.                           *)

\* the whole of create_collection, lines 76-91: the index and the handles it
\* leaves, and whether it raised
CreateCollectionOn(store, colls, c, recreate, delFail, createFail) ==
    LET afterDelete == IF recreate /\ ~delFail /\ store[c].exists
                       THEN DeleteCollection(store, c) ELSE store
    IN  IF createFail
        THEN [chroma |-> afterDelete,        \* get_or_create raised: re-raised
              collections |-> colls, raised |-> TRUE]
        ELSE [chroma |-> CreateCollectionStore(store, c, recreate, delFail),
              collections |-> colls \cup {c}, raised |-> FALSE]

CreateCollection ==
    /\ rq.pc = "idle"
    /\ \E c \in CollNames, recreate \in BOOLEAN,
          delFail \in BOOLEAN, createFail \in BOOLEAN :
         LET out == CreateCollectionOn(chroma, collections, c, recreate,
                                       delFail, createFail)
         IN  /\ chroma' = out.chroma
             /\ collections' = out.collections
    /\ UNCHANGED <<similarity_threshold, top_k, rq>>
    /\ UNCHANGED addVars
    /\ UNCHANGED regVars
    /\ UNCHANGED ingestVars

----------------------------------------------------------------------------
(* RAGPipeline.add_documents *)

\* variant: the ids are counted from existing_count + 1
SynthIdsFromOne(existing_count, k) == [i \in 1..k |-> DocId(existing_count + i)]

\* ids = [f"doc_{existing_count + i}" for i in range(len(documents))]
SynthIds(existing_count, k) == [i \in 1..k |-> DocId(existing_count + i - 1)]

\* metadatas or [{} for _ in documents]
MetasOrDefault(metadatas, k) ==
    IF metadatas = NoList THEN [i \in 1..k |-> NoMeta]
    ELSE metadatas

NewDocs(documents, metadatas, ids) ==
    [i \in 1..Len(documents) |->
        [id |-> ids[i], document |-> documents[i],
         metadata |-> MetasOrDefault(metadatas, Len(documents))[i]]]

IdsOf(docs) == {docs[i].id : i \in DOMAIN docs}

RECURSIVE SkipExisting(_, _)
SkipExisting(new, taken) ==
    IF new = <<>> THEN <<>>
    ELSE IF Head(new).id \in taken THEN SkipExisting(Tail(new), taken)
         ELSE <<Head(new)>> \o SkipExisting(Tail(new), taken \cup {Head(new).id})

\* collection.add.  An id the collection already holds is never stored twice:
\* the installed chromadb either raises for the whole call ("reject") or
\* leaves out the records whose id exists ("skip").
ChromaAdd(docs, new, onDuplicate) ==
    LET dup == \E i \in DOMAIN new :
                  \/ new[i].id \in IdsOf(docs)
                  \/ \E j \in DOMAIN new : j # i /\ new[j].id = new[i].id
    IN  IF dup /\ onDuplicate = "reject"
        THEN [docs |-> docs, raised |-> TRUE]
        ELSE [docs |-> docs \o SkipExisting(new, IdsOf(docs)), raised |-> FALSE]

DuplicateModes == {"reject", "skip"}

\* the add_documents calls made: one text without metadatas, and two texts
\* with metadatas of which only the first names its dataset
AddCalls ==
    { [documents |-> <<"wheat">>, metadatas |-> NoList, ids |-> NoList],
      [documents |-> <<"wheat", "rice">>,
       metadatas |-> <<Meta("crops"), NoMeta>>, ids |-> NoList] }

\* the whole of add_documents, lines 109-137, run without interruption: the
\* index and the handles it leaves, the ids it passed to collection.add, and
\* whether it raised
AddDocumentsOn(store, colls, c, call, createFail, embedFail, addFail, onDuplicate) ==
    LET documents == call.documents
        metadatas == call.metadatas
        ids       == call.ids
        create  == c \notin colls
        created == create /\ ~createFail
        store1  == IF created THEN CreateCollectionStore(store, c, FALSE, FALSE)
                   ELSE store
        raised1 == (create /\ createFail) \/ embedFail \/ ~store1[c].exists
        ids1    == IF ids = NoList
                   THEN SynthIds(Count(store1, c), Len(documents)) ELSE ids
        added   == ChromaAdd(store1[c].docs,
                             NewDocs(documents, metadatas, ids1), onDuplicate)
    IN  [chroma |-> IF raised1 \/ addFail THEN store1
                    ELSE [store1 EXCEPT ![c].docs = added.docs],
         collections |-> IF created THEN colls \cup {c} ELSE colls,
         ids |-> IF raised1 THEN NoList ELSE ids1,
         raised |-> raised1 \/ addFail \/ added.raised]

AddDocuments ==
    /\ rq.pc = "idle"
    /\ \E c \in CollNames, call \in AddCalls,
          createFail \in BOOLEAN, embedFail \in BOOLEAN, addFail \in BOOLEAN,
          onDuplicate \in DuplicateModes :
         LET out == AddDocumentsOn(chroma, collections, c, call,
                                   createFail, embedFail, addFail, onDuplicate)
         IN  /\ Count(chroma, c) + Len(call.documents) <= MaxDocs
             /\ collections' = out.collections
             /\ chroma' = out.chroma
    /\ UNCHANGED <<similarity_threshold, top_k, rq>>
    /\ UNCHANGED addVars
    /\ UNCHANGED regVars
    /\ UNCHANGED ingestVars

----------------------------------------------------------------------------
(* add_documents called from several threads (the background indexing      *)
(* tasks of routes/chat.py run in a thread pool): one step per statement   *)
(* that touches the index.                                                 *)

Workers == {1, 2}

\* the two calls of the scenario: 5 and 7 new documents, no ids
FirstBatch == 5
SecondBatch == 7

BatchOf(w) == IF w = 1 THEN [i \in 1..FirstBatch |-> "wheat"]
              ELSE [i \in 1..SecondBatch |-> "rice"]

ScenarioCollection == "gov_datasets"

\* fault is history: a backend call of this add_documents call failed
StartAdder(w, withMetas) ==
    [pc |-> "start", collection |-> ScenarioCollection,
     documents |-> BatchOf(w),
     metadatas |-> IF withMetas THEN [i \in DOMAIN BatchOf(w) |-> Meta("rainfall")]
                   ELSE NoList,
     ids |-> NoList, outcome |-> None, fault |-> FALSE]

\* lines 111-114
AddEnsure(w) ==
    /\ adders[w].pc = "start"
    /\ \E createFail \in BOOLEAN :
         LET c == adders[w].collection
             create == c \notin collections
         IN  IF create /\ createFail
             THEN /\ adders' = [adders EXCEPT ![w].pc = "done",
                                              ![w].outcome = "raised",
                                              ![w].fault = TRUE]
                  /\ UNCHANGED <<chroma, collections>>
             ELSE /\ chroma' = IF create
                               THEN CreateCollectionStore(chroma, c, FALSE, FALSE)
                               ELSE chroma
                  /\ collections' = collections \cup {c}
                  /\ adders' = [adders EXCEPT ![w].pc = "ensured"]
    /\ UNCHANGED <<similarity_threshold, top_k, rq>>
    /\ UNCHANGED regVars
    /\ UNCHANGED ingestVars

\* line 118
AddEmbed(w) ==
    /\ adders[w].pc = "ensured"
    /\ \E embedFail \in BOOLEAN :
         adders' = IF embedFail
                   THEN [adders EXCEPT ![w].pc = "done", ![w].outcome = "raised",
                                       ![w].fault = TRUE]
                   ELSE [adders EXCEPT ![w].pc = "embedded"]
    /\ UNCHANGED ragVars
    /\ UNCHANGED regVars
    /\ UNCHANGED ingestVars

\* lines 121-123
AddMakeIds(w) ==
    /\ adders[w].pc = "embedded"
    /\ adders' = [adders EXCEPT
                    ![w].pc = "counted",
                    ![w].ids = IF adders[w].ids = NoList
                               THEN SynthIds(Count(chroma, adders[w].collection),
                                             Len(adders[w].documents))
                               ELSE adders[w].ids]
    /\ UNCHANGED ragVars
    /\ UNCHANGED regVars
    /\ UNCHANGED ingestVars

\* lines 126-133
AddInsert(w) ==
    /\ adders[w].pc = "counted"
    /\ \E addFail \in BOOLEAN, onDuplicate \in DuplicateModes :
         LET c == adders[w].collection
             added == ChromaAdd(chroma[c].docs,
                                NewDocs(adders[w].documents, adders[w].metadatas,
                                        adders[w].ids), onDuplicate)
         IN  IF addFail \/ added.raised \/ ~chroma[c].exists
             THEN /\ adders' = [adders EXCEPT ![w].pc = "done",
                                              ![w].outcome = "raised",
                                              ![w].fault = addFail]
                  /\ UNCHANGED chroma
             ELSE /\ chroma' = [chroma EXCEPT ![c].docs = added.docs]
                  /\ adders' = [adders EXCEPT ![w].pc = "done",
                                              ![w].outcome = "returned"]
    /\ UNCHANGED <<collections, similarity_threshold, top_k, rq>>
    /\ UNCHANGED regVars
    /\ UNCHANGED ingestVars

----------------------------------------------------------------------------
(* DataFusion: the dataset registry *)

DatasetNames == {"rainfall", "crops"}

\* a DataFrame: its column index and its rows, each row aligned with columns
\* cell values: a number, a string or null
Num(v) == [num |-> v]
Str(v) == [str |-> v]
Null == [null |-> TRUE]
IsNum(x) == DOMAIN x = {"num"}
IsStr(x) == DOMAIN x = {"str"}
IsNull(x) == DOMAIN x = {"null"}

Frames ==
    { [columns |-> <<"state", "year", "mm">>,
       rows    |-> << <<Str("A"), Num(2020), Num(800)>>,
                      <<Str("A"), Num(2021), Num(850)>> >>],
      [columns |-> <<"state", "yield">>,
       rows    |-> << <<Str("A"), Num(3)>> >>],
      [columns |-> <<>>, rows |-> <<>>] }

Descriptions == {"", "annual rainfall"}
KeyColumnChoices == {NoList, <<"state">>}
TimeColumnChoices == {None, "year"}

\* most register_dataset calls in a behaviour
MaxRegs == 3

ColumnValues(df, j) == {df.rows[i][j] : i \in DOMAIN df.rows}

\* pandas' inferred dtype of a column
Dtype(df, j) ==
    IF ColumnValues(df, j) = {} THEN "object"
    ELSE IF \A x \in ColumnValues(df, j) : IsNum(x) THEN "int64"
    ELSE IF \A x \in ColumnValues(df, j) : IsNum(x) \/ IsNull(x) THEN "float64"
    ELSE "object"

Shape(df) == <<Len(df.rows), Len(df.columns)>>

\* variant: the shape is recorded columns first
MetadataOfTransposed(df, description, key_columns, time_column) ==
    [description |-> description,
     columns     |-> df.columns,
     key_columns |-> IF key_columns = NoList THEN <<>> ELSE key_columns,
     time_column |-> time_column,
     shape       |-> <<Len(df.columns), Len(df.rows)>>,
     dtypes      |-> [j \in DOMAIN df.columns |-> Dtype(df, j)]]

MetadataOf(df, description, key_columns, time_column) ==
    [description |-> description,
     columns     |-> df.columns,
     key_columns |-> IF key_columns = NoList THEN <<>> ELSE key_columns,
     time_column |-> time_column,
     shape       |-> Shape(df),
     dtypes      |-> [j \in DOMAIN df.columns |-> Dtype(df, j)]]

\* d[name] = value on a dict
Put(d, name, value) ==
    [n \in DOMAIN d \cup {name} |-> IF n = name THEN value ELSE d[n]]

\* variant: the rows of a new registration are appended to the old ones
StoreMerged(d, name, df) ==
    IF name \in DOMAIN d
    THEN Put(d, name, [columns |-> d[name].columns,
                       rows |-> d[name].rows \o df.rows])
    ELSE Put(d, name, df)

\* self.datasets[name] = df
StoreDataset(d, name, df) == Put(d, name, df)

\* lines 62-70
RegisterDataset ==
    /\ Len(reg_log) < MaxRegs
    /\ \E name \in DatasetNames, df \in Frames, description \in Descriptions,
          key_columns \in KeyColumnChoices, time_column \in TimeColumnChoices :
         /\ datasets' = StoreDataset(datasets, name, df)
         /\ metadata' = Put(metadata, name,
                            MetadataOf(df, description, key_columns, time_column))
         /\ reg_log' = Append(reg_log, [name |-> name, df |-> df])
    /\ UNCHANGED last_call
    /\ UNCHANGED ingestVars
    /\ UNCHANGED ragVars
    /\ UNCHANGED addVars

\* no query made yet
NoCall == [op |-> "none"]

\* self.datasets.get(name)
GetDataset(name) == IF name \in DOMAIN datasets THEN datasets[name] ELSE NoneRec

\* [{'name': name, **meta} for name, meta in self.metadata.items()], as the
\* set of its records
ListDatasets == {[name |-> n, meta |-> metadata[n]] : n \in DOMAIN metadata}

----------------------------------------------------------------------------
(* DataFusion: query_dataset *)

\* an optional argument: NoArg when it is None, Given(x) when x is passed
NoArg == <<>>
Given(x) == <<x>>
IsGiven(a) == a # NoArg
ArgOf(a) == a[1]

\* pd.DataFrame()
EmptyFrame == [columns |-> <<>>, rows |-> <<>>]
\* df.empty: no rows or no columns
IsEmpty(df) == Len(df.rows) = 0 \/ Len(df.columns) = 0

Range(s) == {s[i] : i \in DOMAIN s}

\* col in df.columns
HasColumn(df, col) == col \in Range(df.columns)
ColumnIndex(df, col) == CHOOSE j \in DOMAIN df.columns : df.columns[j] = col
Cell(df, row, col) == row[ColumnIndex(df, col)]

\* a filter is one item of the filters dict: [col, value] with a scalar
\* value, [col, values] with a list or tuple
IsSequenceValue(p) == "values" \in DOMAIN p

\* lines 174-177: df[col].isin(values), or df[col] == value, which is
\* elementwise and False on a null cell
KeepsRow(df, row, p) ==
    IF IsSequenceValue(p)
    THEN Cell(df, row, p.col) \in Range(p.values)
    ELSE ~IsNull(Cell(df, row, p.col)) /\ Cell(df, row, p.col) = p.value

\* lines 173-177: a filter on a column the frame lacks is skipped
ApplyFilter(df, p) ==
    IF HasColumn(df, p.col)
    THEN [df EXCEPT !.rows = SelectSeq(@, LAMBDA row : KeepsRow(df, row, p))]
    ELSE df

\* variant: only the first item of the dict is applied
ApplyFirstFilter(df, filters) ==
    IF filters = <<>> THEN df ELSE ApplyFilter(df, Head(filters))

\* lines 171-177
RECURSIVE ApplyFilters(_, _)
ApplyFilters(df, filters) ==
    IF filters = <<>> THEN df
    ELSE ApplyFilters(ApplyFilter(df, Head(filters)), Tail(filters))

\* df[cols]
Select(df, cols) ==
    [columns |-> cols,
     rows    |-> [i \in DOMAIN df.rows |->
                     [j \in DOMAIN cols |-> Cell(df, df.rows[i], cols[j])]]]

\* lines 180-183: `if columns:` and `if available_cols:` are truth tests
SelectColumns(df, columns) ==
    IF IsGiven(columns) /\ ArgOf(columns) # <<>>
    THEN LET available_cols == SelectSeq(ArgOf(columns),
                                         LAMBDA col : HasColumn(df, col))
         IN  IF available_cols # <<>> THEN Select(df, available_cols) ELSE df
    ELSE df

\* df.head(n): the first n rows, all but the last -n for a negative n
HeadRows(df, n) ==
    [df EXCEPT !.rows =
        SubSeq(@, 1, IF n >= 0 THEN Min(n, Len(@))
                     ELSE IF Len(@) + n >= 0 THEN Len(@) + n ELSE 0)]

\* lines 186-187: `if limit:` is a truth test
LimitRows(df, limit) ==
    IF IsGiven(limit) /\ ArgOf(limit) # 0 THEN HeadRows(df, ArgOf(limit)) ELSE df

\* what a call gave its caller: a return value, with "raised" for an
\* exception that leaves the method
Returned(frame) == [outcome |-> "returned", error |-> "none", frame |-> frame]

\* variant: an unregistered name is a KeyError
QueryDatasetRaising(ds, dataset_name, filters, columns, limit) ==
    IF dataset_name \notin DOMAIN ds
    THEN [outcome |-> "raised", frame |-> EmptyFrame]
    ELSE [outcome |-> "returned",
          frame   |-> LimitRows(SelectColumns(ApplyFilters(ds[dataset_name],
                                                           filters),
                                              columns), limit)]

\* lines 164-189
QueryDataset(ds, dataset_name, filters, columns, limit) ==
    IF dataset_name \notin DOMAIN ds
    THEN [outcome |-> "returned", frame |-> EmptyFrame]
    ELSE [outcome |-> "returned",
          frame   |-> LimitRows(SelectColumns(ApplyFilters(ds[dataset_name],
                                                           filters),
                                              columns), limit)]

\* the arguments the callers pass
FilterChoices ==
    { <<>>,
      << [col |-> "state", value |-> Str("A")] >>,
      << [col |-> "state", values |-> <<Str("B"), Str("A")>>] >>,
      << [col |-> "year", values |-> <<>>] >>,
      << [col |-> "mm", value |-> Num(800)] >>,
      << [col |-> "state", value |-> Str("A")],
         [col |-> "year", values |-> <<Num(2021)>>] >>,
      << [col |-> "district", value |-> Str("X")] >>,
      << [col |-> "year", value |-> Str("2020")] >> }

ColumnChoices ==
    { NoArg, Given(<<>>), Given(<<"mm", "state">>), Given(<<"district">>),
      Given(<<"district", "year">>) }

\* largest row limit a caller passes
MaxLimit == 2
LimitChoices == {NoArg} \cup {Given(n) : n \in (0 - 1)..MaxLimit}

\* a query reads the registry and leaves it as it is, so the calls of a
\* behaviour are independent: one call from each registry covers them all
QueryDatasetCall ==
    /\ last_call = NoCall
    /\ \E dataset_name \in DatasetNames, filters \in FilterChoices,
          columns \in ColumnChoices, limit \in LimitChoices :
         last_call' = [op           |-> "query_dataset",
                       dataset_name |-> dataset_name,
                       filters      |-> filters,
                       columns      |-> columns,
                       limit        |-> limit,
                       before       |-> datasets,
                       result       |-> QueryDataset(datasets, dataset_name,
                                                     filters, columns, limit)]
    /\ UNCHANGED <<datasets, metadata, reg_log>>
    /\ UNCHANGED ingestVars
    /\ UNCHANGED ragVars
    /\ UNCHANGED addVars

----------------------------------------------------------------------------
(* DataFusion: aggregate_data *)

\* the strings of the datasets, in lexical order
Alphabet == <<"A", "B", "C", "X", "Y">>
Rank(cell) ==
    IF IsNum(cell) THEN cell.num
    ELSE CHOOSE i \in DOMAIN Alphabet : Alphabet[i] = cell.str

\* key tuples in lexical order; the cells of one column have one type
RECURSIVE KeyBefore(_, _)
KeyBefore(k1, k2) ==
    IF k1 = <<>> THEN FALSE
    ELSE \/ Rank(Head(k1)) < Rank(Head(k2))
         \/ Head(k1) = Head(k2) /\ KeyBefore(Tail(k1), Tail(k2))

RECURSIVE SortedKeys(_)
SortedKeys(keys) ==
    IF keys = {} THEN <<>>
    ELSE LET first == CHOOSE k \in keys : \A o \in keys \ {k} : KeyBefore(k, o)
         IN  <<first>> \o SortedKeys(keys \ {first})

KeyOf(df, row, cols) == [j \in DOMAIN cols |-> Cell(df, row, cols[j])]

\* df.groupby(cols): the keys of the groups, sorted; a row with a null key
\* cell is in no group
GroupKeys(df, cols) ==
    SortedKeys({KeyOf(df, df.rows[i], cols) : i \in
                   {i \in DOMAIN df.rows :
                       \A j \in DOMAIN cols : ~IsNull(KeyOf(df, df.rows[i], cols)[j])}})

GroupRows(df, cols, key) ==
    SelectSeq(df.rows, LAMBDA row : KeyOf(df, row, cols) = key)

\* the non-null cells of a column of some rows, in row order
NonNull(df, rows, col) ==
    SelectSeq([i \in DOMAIN rows |-> Cell(df, rows[i], col)],
              LAMBDA cell : ~IsNull(cell))

RECURSIVE SumCells(_)
SumCells(cells) ==
    IF cells = <<>> THEN 0 ELSE Head(cells).num + SumCells(Tail(cells))

MaxCell(cells) ==
    CHOOSE c \in Range(cells) : \A o \in Range(cells) : o.num <= c.num
MinCell(cells) ==
    CHOOSE c \in Range(cells) : \A o \in Range(cells) : c.num <= o.num

\* the aggregation functions callers name, on a numeric column; nulls are
\* skipped
AggFuncs == {"sum", "count", "max", "min"}
Aggregate(df, rows, col, func) ==
    LET cells == NonNull(df, rows, col)
    IN  IF func = "sum" THEN Num(SumCells(cells))
        ELSE IF func = "count" THEN Num(Len(cells))
        ELSE IF cells = <<>> THEN Null
        ELSE IF func = "max" THEN MaxCell(cells) ELSE MinCell(cells)

\* an agg_funcs item that makes .agg raise: a column the frame lacks, or a
\* name that is no aggregation function
BadAgg(df, agg_funcs) ==
    \E a \in DOMAIN agg_funcs :
        ~HasColumn(df, agg_funcs[a].col) \/ agg_funcs[a].func \notin AggFuncs

\* df.groupby(cols).agg(agg_funcs).reset_index()
GroupByAgg(df, cols, agg_funcs) ==
    [columns |-> cols \o [a \in DOMAIN agg_funcs |-> agg_funcs[a].col],
     rows    |-> [g \in DOMAIN GroupKeys(df, cols) |->
                     GroupKeys(df, cols)[g] \o
                     [a \in DOMAIN agg_funcs |->
                         Aggregate(df, GroupRows(df, cols, GroupKeys(df, cols)[g]),
                                   agg_funcs[a].col, agg_funcs[a].func)]]]

\* lines 210-230
AggregateData(ds, dataset_name, group_by, agg_funcs, filters) ==
    LET df == QueryDataset(ds, dataset_name, filters, NoArg, NoArg).frame
        valid_group_cols == SelectSeq(group_by, LAMBDA col : HasColumn(df, col))
    IN  IF IsEmpty(df) THEN Returned(df)
        ELSE IF valid_group_cols = <<>> THEN Returned(EmptyFrame)
        ELSE IF BadAgg(df, agg_funcs) THEN Returned(EmptyFrame)
        ELSE Returned(GroupByAgg(df, valid_group_cols, agg_funcs))

\* the arguments the callers pass
GroupByChoices ==
    { <<>>, <<"state">>, <<"year", "state">>, <<"district">>,
      <<"district", "state">>, <<"district", "block">> }
AggFuncChoices ==
    { << [col |-> "mm", func |-> "sum"] >>,
      << [col |-> "mm", func |-> "max"], [col |-> "year", func |-> "count"] >>,
      << [col |-> "mm", func |-> "min"] >>,
      << [col |-> "rain", func |-> "sum"] >>,
      << [col |-> "mm", func |-> "total"] >> }

AggregateDataCall ==
    /\ last_call = NoCall
    /\ \E dataset_name \in DatasetNames, group_by \in GroupByChoices,
          agg_funcs \in AggFuncChoices, filters \in FilterChoices :
         last_call' = [op           |-> "aggregate_data",
                       dataset_name |-> dataset_name,
                       group_by     |-> group_by,
                       agg_funcs    |-> agg_funcs,
                       filters      |-> filters,
                       before       |-> datasets,
                       result       |-> AggregateData(datasets, dataset_name,
                                                      group_by, agg_funcs,
                                                      filters)]
    /\ UNCHANGED <<datasets, metadata, reg_log>>
    /\ UNCHANGED ingestVars
    /\ UNCHANGED ragVars
    /\ UNCHANGED addVars

----------------------------------------------------------------------------
(* DataFusion: merge_datasets *)

\* lines 96-102; the order of a set's elements is immaterial to the merge
FindCommonColumns(ds, dataset1, dataset2) ==
    IF dataset1 \notin DOMAIN ds \/ dataset2 \notin DOMAIN ds THEN <<>>
    ELSE SelectSeq(ds[dataset1].columns,
                   LAMBDA col : HasColumn(ds[dataset2], col))

\* pd.merge(..., suffixes=('_left', '_right')): a non-key column that both
\* frames have is renamed on each side
LeftColumns(left, right, on) ==
    [j \in DOMAIN left.columns |->
        IF left.columns[j] \notin Range(on) /\ HasColumn(right, left.columns[j])
        THEN left.columns[j] \o "_left" ELSE left.columns[j]]

\* the positions of the right frame's non-key columns
NonKeyIndexes(right, on) ==
    SelectSeq([j \in DOMAIN right.columns |-> j],
              LAMBDA j : right.columns[j] \notin Range(on))

RightColumns(left, right, on) ==
    [n \in DOMAIN NonKeyIndexes(right, on) |->
        LET col == right.columns[NonKeyIndexes(right, on)[n]]
        IN  IF HasColumn(left, col) THEN col \o "_right" ELSE col]

\* the rows agree on every key column (a null key matches a null key)
KeysMatch(left, lrow, right, rrow, on) ==
    \A k \in DOMAIN on : Cell(left, lrow, on[k]) = Cell(right, rrow, on[k])

\* the merged rows one left row gives: one per matching right row, in the
\* right frame's order; how='left' keeps an unmatched left row, with nulls
RowsOf(left, lrow, right, on, how) ==
    LET matching == SelectSeq(right.rows,
                              LAMBDA rrow : KeysMatch(left, lrow, right, rrow, on))
    IN  IF matching = <<>> /\ how = "left"
        THEN << lrow \o [n \in DOMAIN NonKeyIndexes(right, on) |-> Null] >>
        ELSE [m \in DOMAIN matching |->
                 lrow \o [n \in DOMAIN NonKeyIndexes(right, on) |->
                             matching[m][NonKeyIndexes(right, on)[n]]]]

RECURSIVE JoinRows(_, _, _, _, _)
JoinRows(left, right, on, how, i) ==
    IF i > Len(left.rows) THEN <<>>
    ELSE RowsOf(left, left.rows[i], right, on, how)
             \o JoinRows(left, right, on, how, i + 1)

\* pd.merge raises KeyError for a key that either frame lacks
MissingKey(left, right, on) ==
    \E k \in DOMAIN on : ~HasColumn(left, on[k]) \/ ~HasColumn(right, on[k])

\* pd.merge(left_df, right_df, on=on, how=how, suffixes=('_left', '_right'))
PdMerge(left, right, on, how) ==
    [columns |-> LeftColumns(left, right, on) \o RightColumns(left, right, on),
     rows    |-> JoinRows(left, right, on, how, 1)]

\* lines 123-143
MergeDatasets(ds, left_name, right_name, on, how) ==
    IF left_name \notin DOMAIN ds \/ right_name \notin DOMAIN ds
    THEN Returned(EmptyFrame)
    ELSE LET left_df  == ds[left_name]
             right_df == ds[right_name]
             keys == IF IsGiven(on) THEN ArgOf(on)
                     ELSE FindCommonColumns(ds, left_name, right_name)
         IN  IF ~IsGiven(on) /\ keys = <<>> THEN Returned(EmptyFrame)
             ELSE IF MissingKey(left_df, right_df, keys)
                  THEN Returned(EmptyFrame)
                  ELSE Returned(PdMerge(left_df, right_df, keys, how))

\* the arguments the callers pass
OnChoices ==
    { NoArg, Given(<<"state">>), Given(<<"state", "area">>),
      Given(<<"district">>), Given(<<"state", "district">>) }
HowChoices == {"inner", "left"}

MergeDatasetsCall ==
    /\ last_call = NoCall
    /\ \E left_name \in DatasetNames, right_name \in DatasetNames,
          on \in OnChoices, how \in HowChoices :
         last_call' = [op         |-> "merge_datasets",
                       left_name  |-> left_name,
                       right_name |-> right_name,
                       on         |-> on,
                       how        |-> how,
                       before     |-> datasets,
                       result     |-> MergeDatasets(datasets, left_name,
                                                    right_name, on, how)]
    /\ UNCHANGED <<datasets, metadata, reg_log>>
    /\ UNCHANGED ingestVars
    /\ UNCHANGED ragVars
    /\ UNCHANGED addVars

----------------------------------------------------------------------------
(* DataFusion: calculate_correlation *)

\* a correlation coefficient r, exactly: its sign and r^2 = num / den in
\* lowest terms; den = 0 is NaN
ZeroCoef == [sign |-> 0, num |-> 0, den |-> 1]
NanCoef == [sign |-> 0, num |-> 0, den |-> 0]

RECURSIVE GCD(_, _)
GCD(a, b) == IF b = 0 THEN a ELSE GCD(b, a % b)

RECURSIVE SumProducts(_, _)
SumProducts(xs, ys) ==
    IF xs = <<>> THEN 0
    ELSE Head(xs).num * Head(ys).num + SumProducts(Tail(xs), Tail(ys))

\* Series.corr: Pearson's r of two aligned numeric columns
Pearson(xs, ys) ==
    LET n   == Len(xs)
        cov == n * SumProducts(xs, ys) - SumCells(xs) * SumCells(ys)
        vx  == n * SumProducts(xs, xs) - SumCells(xs) * SumCells(xs)
        vy  == n * SumProducts(ys, ys) - SumCells(ys) * SumCells(ys)
        g   == GCD(cov * cov, vx * vy)
    IN  IF vx * vy = 0 THEN NanCoef
        ELSE IF cov = 0 THEN ZeroCoef
        ELSE [sign |-> IF cov > 0 THEN 1 ELSE 0 - 1,
              num  |-> (cov * cov) \div g,
              den  |-> (vx * vy) \div g]

\* lines 262-263
LeftValueColumn(merged, value_col1) ==
    IF HasColumn(merged, value_col1) THEN value_col1 ELSE value_col1 \o "_left"
\* variant: the second value column is looked up under the left suffix
RightValueColumnAsLeft(merged, value_col2) ==
    IF HasColumn(merged, value_col2) THEN value_col2 ELSE value_col2 \o "_left"
RightValueColumn(merged, value_col2) ==
    IF HasColumn(merged, value_col2) THEN value_col2 ELSE value_col2 \o "_right"

\* merged[[col1, col2]].dropna()
DropNa(merged, col1, col2) ==
    SelectSeq(merged.rows,
              LAMBDA row : ~IsNull(Cell(merged, row, col1))
                           /\ ~IsNull(Cell(merged, row, col2)))

\* variant: one paired observation is enough
TooFewBelowOne(clean) == Len(clean) < 1
\* line 268
TooFew(clean) == Len(clean) < 2

\* the (coefficient, detail) pair a call returns
Correlation(coef, frame) ==
    [outcome |-> "returned", correlation |-> coef, frame |-> frame]

\* lines 254-278; the exceptions of lines 266-274 (a column merged lacks,
\* one column selected twice, a non-numeric column) end in line 278
CalculateCorrelation(ds, dataset1_name, dataset2_name, value_col1, value_col2, merge_on) ==
    LET merged == MergeDatasets(ds, dataset1_name, dataset2_name,
                                Given(merge_on), "inner").frame
        col1 == LeftValueColumn(merged, value_col1)
        col2 == RightValueColumn(merged, value_col2)
    IN  IF IsEmpty(merged) THEN Correlation(ZeroCoef, EmptyFrame)
        ELSE IF ~HasColumn(merged, col1) \/ ~HasColumn(merged, col2)
             THEN Correlation(ZeroCoef, merged)
        ELSE IF TooFew(DropNa(merged, col1, col2))
             THEN Correlation(ZeroCoef, merged)
        ELSE IF col1 = col2 THEN Correlation(ZeroCoef, merged)
        ELSE LET clean == DropNa(merged, col1, col2)
                 xs == [i \in DOMAIN clean |-> Cell(merged, clean[i], col1)]
                 ys == [i \in DOMAIN clean |-> Cell(merged, clean[i], col2)]
             IN  IF \E i \in DOMAIN clean : ~IsNum(xs[i]) \/ ~IsNum(ys[i])
                 THEN Correlation(ZeroCoef, merged)
                 ELSE Correlation(Pearson(xs, ys), merged)

\* the arguments the callers pass
ValueColumnChoices == {"mm", "yield", "area", "state", "rain"}
MergeOnChoices == {<<"state">>, <<"state", "area">>, <<"district">>}

CalculateCorrelationCall ==
    /\ last_call = NoCall
    /\ \E dataset1_name \in DatasetNames, dataset2_name \in DatasetNames,
          value_col1 \in ValueColumnChoices, value_col2 \in ValueColumnChoices,
          merge_on \in MergeOnChoices :
         last_call' = [op            |-> "calculate_correlation",
                       dataset1_name |-> dataset1_name,
                       dataset2_name |-> dataset2_name,
                       value_col1    |-> value_col1,
                       value_col2    |-> value_col2,
                       merge_on      |-> merge_on,
                       before        |-> datasets,
                       result        |-> CalculateCorrelation(datasets,
                                             dataset1_name, dataset2_name,
                                             value_col1, value_col2, merge_on)]
    /\ UNCHANGED <<datasets, metadata, reg_log>>
    /\ UNCHANGED ingestVars
    /\ UNCHANGED ragVars
    /\ UNCHANGED addVars

----------------------------------------------------------------------------
(* DataFusion: time_series_analysis *)

\* pd.to_datetime(..., errors='coerce'): an integer is that many nanoseconds
\* after the epoch; null and the strings of the datasets, none of which is a
\* date, become NaT
NaT == [nat |-> TRUE]
IsNaT(t) == DOMAIN t = {"nat"}
ToDatetime(cell) == IF IsNum(cell) THEN [ns |-> cell.num] ELSE NaT

TimeOf(df, i, time_column) == ToDatetime(Cell(df, df.rows[i], time_column))

\* df.sort_values(time_column): ascending, NaT last in the frame's order;
\* the sort is not stable, so rows of one time come out in any order
SortOrders(df, time_column) ==
    {p \in [DOMAIN df.rows -> DOMAIN df.rows] :
        \A i, j \in DOMAIN df.rows :
            i < j =>
                LET a == TimeOf(df, p[i], time_column)
                    b == TimeOf(df, p[j], time_column)
                IN  /\ p[i] # p[j]
                    /\ IsNaT(a) => IsNaT(b) /\ p[i] < p[j]
                    /\ (~IsNaT(a) /\ ~IsNaT(b)) => a.ns <= b.ns}

\* df[time_column].min() and .max(): NaT is skipped
TimeRange(df, time_column) ==
    LET times == {TimeOf(df, i, time_column) : i \in DOMAIN df.rows}
        valid == {t \in times : ~IsNaT(t)}
    IN  IF valid = {} THEN [start |-> NaT, end |-> NaT]
        ELSE [start |-> CHOOSE t \in valid : \A o \in valid : t.ns <= o.ns,
              end   |-> CHOOSE t \in valid : \A o \in valid : o.ns <= t.ns]

\* a fraction in lowest terms; den = 0 is NaN
Fraction(num, den) ==
    IF den = 0 THEN [num |-> 0, den |-> 0]
    ELSE [num |-> num \div GCD(num, den), den |-> den \div GCD(num, den)]

\* values.iloc[-1] > values.iloc[0]
Trend(values) ==
    IF values[Len(values)].num > values[1].num
    THEN "increasing" ELSE "decreasing"

\* lines 326-332 and 337-343 on the non-null values; std is given by its
\* square, the sample variance
Statistics(values) ==
    [mean  |-> Fraction(SumCells(values), Len(values)),
     var   |-> Fraction(Len(values) * SumProducts(values, values)
                            - SumCells(values) * SumCells(values),
                        Len(values) * (Len(values) - 1)),
     min   |-> MinCell(values).num,
     max   |-> MaxCell(values).num,
     trend |-> Trend(values)]

\* no value to take iloc[0] of, or a value that is not a number
NoStatistics(values) ==
    values = <<>> \/ \E i \in DOMAIN values : ~IsNum(values[i])

\* the {} of lines 302 and 349
EmptyAnalysis == [kind |-> "empty"]

\* lines 299-349; order is the row order sort_values produces
TimeSeriesAnalysis(ds, dataset_name, time_column, value_column, group_by, order) ==
    LET df == QueryDataset(ds, dataset_name, <<>>, NoArg, NoArg).frame
    IN  IF IsEmpty(df) THEN EmptyAnalysis
        ELSE IF ~HasColumn(df, time_column) \/ ~HasColumn(df, value_column)
             THEN EmptyAnalysis
        ELSE
          LET sorted == [df EXCEPT !.rows = [i \in DOMAIN @ |-> @[order[i]]]]
              header == [dataset     |-> dataset_name,
                         time_range  |-> TimeRange(df, time_column),
                         data_points |-> Len(df.rows)]
          IN  IF IsGiven(group_by) /\ HasColumn(df, ArgOf(group_by))
              THEN LET keys == GroupKeys(sorted, <<ArgOf(group_by)>>)
                       ValuesOf(g) ==
                           NonNull(sorted,
                                   GroupRows(sorted, <<ArgOf(group_by)>>, keys[g]),
                                   value_column)
                   IN  IF \E g \in DOMAIN keys : NoStatistics(ValuesOf(g))
                       THEN EmptyAnalysis
                       ELSE [kind   |-> "groups",
                             header |-> header,
                             groups |-> [g \in DOMAIN keys |->
                                            [name |-> keys[g][1],
                                             statistics |->
                                                 Statistics(ValuesOf(g))]]]
              ELSE LET values == NonNull(sorted, sorted.rows, value_column)
                   IN  IF NoStatistics(values) THEN EmptyAnalysis
                       ELSE [kind       |-> "statistics",
                             header     |-> header,
                             statistics |-> Statistics(values)]

\* the arguments the callers pass
TimeColumnArgs == {"year", "date"}
ValueColumnArgs == {"mm", "rain", "state"}
GroupByArgs == {NoArg, Given("state"), Given("district")}

TimeSeriesAnalysisCall ==
    /\ last_call = NoCall
    /\ \E dataset_name \in DatasetNames, time_column \in TimeColumnArgs,
          value_column \in ValueColumnArgs, group_by \in GroupByArgs :
         \E order \in IF dataset_name \in DOMAIN datasets
                         /\ HasColumn(datasets[dataset_name], time_column)
                      THEN SortOrders(datasets[dataset_name], time_column)
                      ELSE {<<>>} :
            last_call' = [op           |-> "time_series_analysis",
                          dataset_name |-> dataset_name,
                          time_column  |-> time_column,
                          value_column |-> value_column,
                          group_by     |-> group_by,
                          order        |-> order,
                          before       |-> datasets,
                          result       |-> TimeSeriesAnalysis(datasets,
                                               dataset_name, time_column,
                                               value_column, group_by, order)]
    /\ UNCHANGED <<datasets, metadata, reg_log>>
    /\ UNCHANGED ingestVars
    /\ UNCHANGED ragVars
    /\ UNCHANGED addVars

----------------------------------------------------------------------------
(* The index operations of one caller, one after the other.  last_index    *)
(* keeps the call, the collection as it was before it, the ids handed to   *)
(* collection.add, and how many texts returned calls have added since the  *)
(* last create_collection(recreate=True).                                  *)

TextsAdded == IF last_index = NoCall THEN 0 ELSE last_index.added
FaultSoFar == IF last_index = NoCall THEN FALSE ELSE last_index.faulted

CreateCollectionCall ==
    /\ \E c \in CollNames, recreate \in BOOLEAN,
          delFail \in BOOLEAN, createFail \in BOOLEAN :
         LET out == CreateCollectionOn(chroma, collections, c, recreate,
                                       delFail, createFail)
             \* delete_collection raised although the collection is there
             fault == (recreate /\ delFail /\ chroma[c].exists) \/ createFail
         IN  /\ chroma' = out.chroma
             /\ collections' = out.collections
             /\ last_index' = [op |-> "create_collection", collection |-> c,
                               recreate |-> recreate, before |-> chroma[c],
                               raised |-> out.raised,
                               create_failed |-> createFail,
                               faulted |-> FaultSoFar \/ fault,
                               added |-> IF recreate THEN 0 ELSE TextsAdded]
    /\ UNCHANGED <<similarity_threshold, top_k, rq>>
    /\ UNCHANGED addVars
    /\ UNCHANGED regVars
    /\ UNCHANGED <<pager, ingest>>

\* calls that bring their own ids
CallsWithIds ==
    { [documents |-> <<"maize">>, metadatas |-> NoList, ids |-> <<"doc_1">>],
      [documents |-> <<"millet">>, metadatas |-> <<Meta("crops")>>,
       ids |-> <<"row_7">>] }

AddDocumentsCall ==
    /\ \E c \in CollNames, call \in AddCalls \cup CallsWithIds,
          createFail \in BOOLEAN, embedFail \in BOOLEAN, addFail \in BOOLEAN,
          onDuplicate \in DuplicateModes :
         LET out == AddDocumentsOn(chroma, collections, c, call,
                                   createFail, embedFail, addFail, onDuplicate)
             fault == (c \notin collections /\ createFail) \/ embedFail \/ addFail
         IN  /\ Count(chroma, c) + Len(call.documents) <= MaxDocs
             /\ TextsAdded + Len(call.documents) <= MaxDocs
             \* a caller that brings ids brings ids the collection does not hold
             /\ \A i \in DOMAIN call.ids : call.ids[i] \notin IdsOf(chroma[c].docs)
             /\ collections' = out.collections
             /\ chroma' = out.chroma
             /\ last_index' = [op |-> "add_documents", collection |-> c,
                               call |-> call, before |-> chroma[c],
                               ids |-> out.ids, raised |-> out.raised,
                               faulted |-> FaultSoFar \/ fault,
                               added |-> IF out.raised THEN TextsAdded
                                         ELSE TextsAdded + Len(call.documents)]
    /\ UNCHANGED <<similarity_threshold, top_k, rq>>
    /\ UNCHANGED addVars
    /\ UNCHANGED regVars
    /\ UNCHANGED <<pager, ingest>>

----------------------------------------------------------------------------
(* DataGovFetcher.fetch_paginated (utils/fetch_datasets.py).  A page is    *)
(* modelled by the number of its records, all_data by the sequence of      *)
(* these numbers.                                                          *)

batch_size == 1000

\* most full pages a call is asked for
MaxPages == 3

\* the max_records values a caller passes: multiples of 1000 and others
MaxRecordsChoices == {250 * k : k \in 0..(4 * MaxPages)}

\* what fetch_dataset returns for one page of at most batch_size records:
\* nothing (no record left, or the request failed: lines 62-64), a short
\* page, a full page
PageLengths == {0, 1, batch_size - 1, batch_size}

\* lines 80-82
FetchPaginatedStart ==
    /\ pager.pc = "idle"
    /\ \E max_records \in MaxRecordsChoices :
         pager' = [pc |-> "loop", max_records |-> max_records, offset |-> 0,
                   all_data |-> <<>>, result |-> 0]
    /\ UNCHANGED <<ingest, last_index>>
    /\ UNCHANGED ragVars
    /\ UNCHANGED addVars
    /\ UNCHANGED regVars

\* lines 84-96: the test of the while loop and one pass through its body
FetchPage ==
    /\ pager.pc = "loop"
    /\ IF ~(pager.offset < pager.max_records)
       THEN pager' = [pager EXCEPT !.pc = "concat"]
       ELSE \E n \in PageLengths :
              pager' =
                IF n = 0                                   \* df.empty: break
                THEN [pager EXCEPT !.pc = "concat"]
                ELSE IF n < batch_size                     \* short page: break
                THEN [pager EXCEPT !.pc = "concat",
                                   !.all_data = Append(@, n)]
                ELSE [pager EXCEPT !.all_data = Append(@, n),
                                   !.offset = @ + batch_size]
    /\ UNCHANGED <<ingest, last_index>>
    /\ UNCHANGED ragVars
    /\ UNCHANGED addVars
    /\ UNCHANGED regVars

\* lines 98-103: pd.concat(all_data), or an empty frame
FetchConcat ==
    /\ pager.pc = "concat"
    /\ pager' = [pager EXCEPT !.pc = "done", !.result = SumSeq(pager.all_data)]
    /\ UNCHANGED <<ingest, last_index>>
    /\ UNCHANGED ragVars
    /\ UNCHANGED addVars
    /\ UNCHANGED regVars

----------------------------------------------------------------------------
(* Specifications *)

EmptyStore == [c \in CollNames |-> NoCollection]
EmptyDict == <<>>
NoAdders == <<>>
IdlePager == [pc |-> "idle"]
NoRequests == <<>>

InitPipeline ==
    /\ chroma = EmptyStore
    /\ collections = {}
    /\ similarity_threshold \in Thresholds
    /\ top_k = TOP_K_RESULTS
    /\ rq = IdleRq

InitRegistry ==
    /\ datasets = EmptyDict
    /\ metadata = EmptyDict
    /\ reg_log = <<>>
    /\ last_call = NoCall

\* nothing fetched, no ingestion request made, no index operation logged
NoIngestion ==
    /\ pager = IdlePager
    /\ ingest = NoRequests
    /\ last_index = NoCall

\* the retrieval and answer pipeline
Init ==
    /\ InitPipeline
    /\ adders = NoAdders
    /\ NoIngestion
    /\ InitRegistry

Next ==
    \/ RagRetrieve
    \/ RagAssemble
    \/ RagGenerate
    \/ RagReturn
    \/ RagNext
    \/ CreateCollection
    \/ AddDocuments

Spec == Init /\ [][Next]_vars

\* two concurrent add_documents calls on an initially empty collection
InitAdd ==
    /\ chroma \in {EmptyStore,
                   [EmptyStore EXCEPT ![ScenarioCollection].exists = TRUE]}
    /\ collections = {c \in CollNames : chroma[c].exists}
    /\ similarity_threshold = 0
    /\ top_k = 1
    /\ rq = IdleRq
    /\ adders \in {[w \in Workers |-> StartAdder(w, m[w])] :
                       m \in [Workers -> BOOLEAN]}
    /\ NoIngestion
    /\ InitRegistry

NextAdd ==
    \E w \in Workers :
        \/ AddEnsure(w)
        \/ AddEmbed(w)
        \/ AddMakeIds(w)
        \/ AddInsert(w)

SpecAdd == InitAdd /\ [][NextAdd]_vars

\* create_collection and add_documents called one after the other on an
\* index that starts empty
InitIndex ==
    /\ chroma = EmptyStore
    /\ collections = {}
    /\ similarity_threshold = 0
    /\ top_k = 1
    /\ rq = IdleRq
    /\ adders = NoAdders
    /\ NoIngestion
    /\ InitRegistry

NextIndex ==
    \/ CreateCollectionCall
    \/ AddDocumentsCall

SpecIndex == InitIndex /\ [][NextIndex]_vars

\* one fetch_paginated call
InitFetch ==
    /\ chroma = EmptyStore
    /\ collections = {}
    /\ similarity_threshold = 0
    /\ top_k = 1
    /\ rq = IdleRq
    /\ adders = NoAdders
    /\ NoIngestion
    /\ InitRegistry

NextFetch ==
    \/ FetchPaginatedStart
    \/ FetchPage
    \/ FetchConcat

SpecFetch == InitFetch /\ [][NextFetch]_vars

\* every step of the call that can be taken is taken
SpecFetchFair == SpecFetch /\ WF_vars(NextFetch)

\* the dataset registry
InitReg ==
    /\ chroma = EmptyStore
    /\ collections = {}
    /\ similarity_threshold = 0
    /\ top_k = 1
    /\ rq = IdleRq
    /\ adders = NoAdders
    /\ NoIngestion
    /\ InitRegistry

NextReg == RegisterDataset

SpecReg == InitReg /\ [][NextReg]_vars

\* a registry that register_dataset calls have filled
RECURSIVE DatasetsAfter(_)
DatasetsAfter(log) ==
    IF log = <<>> THEN EmptyDict
    ELSE StoreDataset(DatasetsAfter(SubSeq(log, 1, Len(log) - 1)),
                      log[Len(log)].name, log[Len(log)].df)

InitRegistryFrom(log) ==
    /\ reg_log = log
    /\ datasets = DatasetsAfter(log)
    /\ metadata = [n \in DOMAIN datasets |->
                      MetadataOf(datasets[n], "", NoList, None)]
    /\ last_call = NoCall

SeqsUpTo(S, n) == UNION {[1..k -> S] : k \in 0..n}

\* most rows of a registered dataset
MaxRows == 3

QueryFrames ==
    {[columns |-> <<"state", "year", "mm">>, rows |-> r] :
        r \in SeqsUpTo({ <<Str("A"), Num(2020), Num(800)>>,
                         <<Str("A"), Num(2021), Num(850)>>,
                         <<Str("B"), Num(2020), Null>> }, MaxRows)}

\* query_dataset and aggregate_data on a registry holding at most the
\* rainfall dataset
InitQuery ==
    /\ chroma = EmptyStore
    /\ collections = {}
    /\ similarity_threshold = 0
    /\ top_k = 1
    /\ rq = IdleRq
    /\ adders = NoAdders
    /\ NoIngestion
    /\ \E log \in {<<>>} \cup {<<[name |-> "rainfall", df |-> df]>> :
                                  df \in QueryFrames} :
         InitRegistryFrom(log)

NextQuery ==
    \/ QueryDatasetCall
    \/ AggregateDataCall

SpecQuery == InitQuery /\ [][NextQuery]_vars

\* the datasets the joins read: rainfall by state, crops by state or district
RainfallFrames ==
    {[columns |-> <<"state", "mm", "area">>, rows |-> r] :
        r \in SeqsUpTo({ <<Str("A"), Num(1), Num(4)>>,
                         <<Str("B"), Num(3), Num(2)>>,
                         <<Str("C"), Null, Num(3)>> }, MaxRows)}

CropFrames ==
    { [columns |-> <<"state", "yield", "area">>,
       rows    |-> << <<Str("B"), Num(5), Num(1)>>,
                      <<Str("A"), Num(2), Num(2)>>,
                      <<Str("C"), Num(4), Num(5)>> >>],
      [columns |-> <<"state", "yield", "area">>,
       rows    |-> << <<Str("A"), Num(2), Num(2)>>,
                      <<Str("B"), Null, Num(1)>> >>],
      [columns |-> <<"district", "yield">>,
       rows    |-> << <<Str("X"), Num(2)>>, <<Str("Y"), Num(3)>> >>] }

\* merge_datasets and calculate_correlation on a registry of two datasets
InitJoin ==
    /\ chroma = EmptyStore
    /\ collections = {}
    /\ similarity_threshold = 0
    /\ top_k = 1
    /\ rq = IdleRq
    /\ adders = NoAdders
    /\ NoIngestion
    /\ \E log \in
           {<<>>}
           \cup {<<[name |-> "rainfall", df |-> df]>> : df \in RainfallFrames}
           \cup {<<[name |-> "crops", df |-> df]>> : df \in CropFrames}
           \cup {<<[name |-> "rainfall", df |-> l],
                   [name |-> "crops", df |-> r]>> :
                    l \in RainfallFrames, r \in CropFrames} :
         InitRegistryFrom(log)

NextJoin ==
    \/ MergeDatasetsCall
    \/ CalculateCorrelationCall

SpecJoin == InitJoin /\ [][NextJoin]_vars

\* the datasets the time series are read from
SeriesFrames ==
    {[columns |-> <<"state", "year", "mm">>, rows |-> r] :
        r \in SeqsUpTo({ <<Str("A"), Num(2020), Num(800)>>,
                         <<Str("A"), Num(2021), Num(850)>>,
                         <<Str("A"), Num(2020), Num(900)>>,
                         <<Str("B"), Num(2021), Null>>,
                         <<Str("B"), Str("n/a"), Num(700)>> }, MaxRows)}
    \cup { [columns |-> <<"state", "year", "mm">>,
            rows    |-> << <<Str("A"), Num(2022), Num(80)>>,
                           <<Str("A"), Num(2020), Num(100)>>,
                           <<Str("A"), Num(2023), Num(110)>>,
                           <<Str("A"), Num(2021), Num(90)>> >>] }

\* time_series_analysis on a registry holding at most the rainfall dataset
InitSeries ==
    /\ chroma = EmptyStore
    /\ collections = {}
    /\ similarity_threshold = 0
    /\ top_k = 1
    /\ rq = IdleRq
    /\ adders = NoAdders
    /\ NoIngestion
    /\ \E log \in {<<>>} \cup {<<[name |-> "rainfall", df |-> df]>> :
                                  df \in SeriesFrames} :
         InitRegistryFrom(log)

NextSeries == TimeSeriesAnalysisCall

SpecSeries == InitSeries /\ [][NextSeries]_vars

----------------------------------------------------------------------------
(* routes/chat.py: index_data and its background task.  Two requests, one  *)
(* per worker; the task of a request is the add_documents call of that     *)
(* worker, run step by step after the response.                            *)

\* the dataset each request names
IngestName(w) == IF w = 1 THEN "rainfall" ELSE "crops"

\* what fetch_paginated or fetch_csv gave: no row, or up to MaxRows rows
IngestFrames ==
    {[columns |-> <<"state", "mm">>,
      rows |-> [i \in 1..n |-> <<Str("A"), Num(800 + i)>>]] : n \in 0..MaxRows}

\* request.resource_id, request.csv_url, or neither
IngestSources == {"resource_id", "csv_url", "none"}

\* " | ".join(f"{col}: {row[col]}" for col in df.columns)
RowText(df, i) == ToString(<<df.columns, df.rows[i]>>)

NoRequest == [status |-> "none", code |-> 0, rows |-> 0, task_at_response |-> "none"]

NoTask == [pc |-> "idle", collection |-> ScenarioCollection,
           documents |-> <<>>, metadatas |-> NoList, ids |-> NoList,
           outcome |-> None, fault |-> FALSE]

\* index_in_background as handed to background_tasks.add_task: lines 168-190
IndexInBackground(w, df) ==
    [pc |-> "start", collection |-> ScenarioCollection,
     documents |-> [i \in DOMAIN df.rows |-> RowText(df, i)],
     metadatas |-> [i \in DOMAIN df.rows |-> Meta(IngestName(w))],
     ids |-> NoList, outcome |-> None, fault |-> FALSE]

HttpError(w, code) ==
    [ingest EXCEPT !.requests[w] =
        [status |-> "error", code |-> code, rows |-> 0, task_at_response |-> "none"]]

\* lines 132-204, up to the response
IndexData(w) ==
    /\ ingest.requests[w].status = "none"
    /\ \E source \in IngestSources, df \in IngestFrames,
          description \in Descriptions :
         IF ~ingest.services.initialized
         THEN /\ ingest' = HttpError(w, 503)
              /\ UNCHANGED <<datasets, metadata, reg_log, adders>>
         ELSE IF source = "none" \/ ~ingest.services.data_fetcher
         THEN /\ ingest' = HttpError(w, 400)
              /\ UNCHANGED <<datasets, metadata, reg_log, adders>>
         ELSE IF IsEmpty(df)
         THEN /\ ingest' = HttpError(w, 404)
              /\ UNCHANGED <<datasets, metadata, reg_log, adders>>
         ELSE /\ datasets' = StoreDataset(datasets, IngestName(w), df)
              /\ metadata' = Put(metadata, IngestName(w),
                                 MetadataOf(df, description, NoList, None))
              /\ reg_log' = Append(reg_log, [name |-> IngestName(w), df |-> df])
              /\ adders' = IF ingest.services.rag_pipeline
                           THEN [adders EXCEPT ![w] = IndexInBackground(w, df)]
                           ELSE adders
              /\ ingest' = [ingest EXCEPT !.requests[w] =
                              [status |-> "success", code |-> 200,
                               rows |-> Len(df.rows),
                               task_at_response |-> adders'[w].pc]]
    /\ UNCHANGED <<last_call, pager, last_index>>
    /\ UNCHANGED ragVars

\* one step of the background task of request w
BackgroundTask(w) ==
    \/ AddEnsure(w)
    \/ AddEmbed(w)
    \/ AddMakeIds(w)
    \/ AddInsert(w)

\* the service after startup (main.py:52-105): the RAG pipeline and the
\* fetcher are there when their keys are configured
Services ==
    [initialized : BOOLEAN, rag_pipeline : BOOLEAN, data_fetcher : BOOLEAN]

InitIngest ==
    /\ chroma \in {EmptyStore,
                   [EmptyStore EXCEPT ![ScenarioCollection].exists = TRUE]}
    /\ collections = {c \in CollNames : chroma[c].exists}
    /\ similarity_threshold = 0
    /\ top_k = 1
    /\ rq = IdleRq
    /\ adders = [w \in Workers |-> NoTask]
    /\ pager = IdlePager
    /\ ingest \in {[services |-> s, requests |-> [w \in Workers |-> NoRequest]] :
                      s \in Services}
    /\ last_index = NoCall
    /\ InitRegistry

NextIngest ==
    \E w \in Workers :
        \/ IndexData(w)
        \/ AddEnsure(w)
        \/ AddEmbed(w)
        \/ AddMakeIds(w)
        \/ AddInsert(w)

SpecIngest == InitIngest /\ [][NextIngest]_vars

\* a background task that was added is run to its end
SpecIngestFair == SpecIngest /\ \A w \in Workers : WF_vars(BackgroundTask(w))

----------------------------------------------------------------------------
(* Properties *)

InRequest == rq.pc # "idle"
Done == rq.pc = "done"

\* the distances of an index response that pass the threshold, worked out
\* from the response itself
KeptDistances(resp, t) ==
    SelectSeq([i \in DOMAIN resp |-> resp[i].distance],
              LAMBDA d : Scale - d >= t)

\* C1: every result query returns has similarity 1 - distance >= the
\* configured threshold, whatever the threshold and the index response.
C1_ResultsMeetThreshold ==
    InRequest =>
        \A i \in DOMAIN rq.results.distances :
            Scale - rq.results.distances[i] >= similarity_threshold

\* a question for which the filter kept some results and dropped others
C1_Witness ==
    /\ InRequest
    /\ rq.results.distances # <<>>
    /\ Len(rq.results.distances) < Len(rq.response)

IsAlignedSubsequence(res, resp) ==
    /\ Len(res.documents) = Len(res.ids)
    /\ Len(res.metadatas) = Len(res.ids)
    /\ Len(res.distances) = Len(res.ids)
    /\ \E f \in [1..Len(res.ids) -> DOMAIN resp] :
         /\ \A i, j \in 1..Len(res.ids) : i < j => f[i] < f[j]
         /\ \A i \in 1..Len(res.ids) :
              /\ res.ids[i] = resp[f[i]].id
              /\ res.documents[i] = resp[f[i]].document
              /\ res.metadatas[i] = resp[f[i]].metadata
              /\ res.distances[i] = resp[f[i]].distance

\* C2: what query returns is a subsequence of the index's ranked response, in
\* the index's order, with documents, metadatas, distances and ids aligned
\* position by position.
C2_ResultsAreAlignedSubsequence ==
    InRequest => IsAlignedSubsequence(rq.results, rq.response)

\* two results survive, of different documents
C2_Witness ==
    /\ InRequest
    /\ Len(rq.results.ids) = 2
    /\ rq.results.documents[1] # rq.results.documents[2]
    /\ rq.results.metadatas[1] # rq.results.metadatas[2]

AddersDone == \A w \in Workers : adders[w].pc = "done"
NoAdderFault == \A w \in Workers : ~adders[w].fault

\* C3: two concurrent add_documents calls without ids, of 5 and 7 documents,
\* on an empty collection end with 12 documents carrying 12 distinct ids in
\* every interleaving (no backend call failing).
C3_ConcurrentAddsKeepAllDocuments ==
    (AddersDone /\ NoAdderFault) =>
        /\ Count(chroma, ScenarioCollection) = FirstBatch + SecondBatch
        /\ Cardinality(IdsOf(chroma[ScenarioCollection].docs))
             = FirstBatch + SecondBatch

InUnitRange(c) == c.den > 0 /\ 0 <= c.num /\ c.num <= c.den

\* C4 as stated: the confidence rag_query returns is in [0, 1] for every
\* retrieval result and every configured threshold.
C4_ConfidenceInUnitRange ==
    Done => InUnitRange(rq.result.confidence)

\* C4 as amended: the confidence rag_query returns is in [0, 1] for every
\* retrieval result whenever the configured threshold is at least 0.
C4_ConfidenceInUnitRangeForNonNegativeThreshold ==
    (Done /\ similarity_threshold >= 0) => InUnitRange(rq.result.confidence)

\* a confidence strictly between 0 and 1 under a threshold of at least 0
C4_Witness ==
    /\ Done
    /\ similarity_threshold >= 0
    /\ 0 < rq.result.confidence.num
    /\ rq.result.confidence.num < rq.result.confidence.den

\* C5: the confidence is 1 minus the mean of the distances of exactly the
\* results that passed the filter, and 0.0 when none did.
C5_ConfidenceIsOneMinusMeanKeptDistance ==
    Done =>
        LET kept == KeptDistances(rq.response, similarity_threshold)
            c == rq.result.confidence
        IN  /\ c.den > 0
            /\ IF kept = <<>> THEN c.num = 0
               ELSE c.num * (Len(kept) * Scale)
                      = c.den * (Len(kept) * Scale - SumSeq(kept))

\* an answer whose index response was cut by the filter, with a mean
\* distance other than 0
C5_Witness ==
    /\ Done
    /\ KeptDistances(rq.response, similarity_threshold) # <<>>
    /\ Len(KeptDistances(rq.response, similarity_threshold)) < Len(rq.response)
    /\ SumSeq(KeptDistances(rq.response, similarity_threshold)) > 0

IsPrefix(s, t) == Len(s) <= Len(t) /\ \A i \in DOMAIN s : s[i] = t[i]

AllSteps == <<"retrieve", "assemble", "generate", "confidence">>

\* C6: with nothing retrieved rag_query returns the fixed "no relevant
\* information" result (confidence 0.0, no sources) and the language model is
\* not called; otherwise the steps run in the order retrieve, assemble
\* context, generate answer, compute confidence.
C6_ProtocolOrder ==
    /\ IsPrefix(rq.steps, AllSteps)
    /\ (InRequest /\ rq.results.documents = <<>>) =>
          /\ Done
          /\ rq.result = NoInfoResult
          /\ rq.llm_calls = 0
          /\ rq.steps = <<"retrieve">>
    /\ (Done /\ rq.results.documents # <<>>) =>
          /\ rq.steps = AllSteps
          /\ rq.llm_calls = 1
          /\ rq.result.context = rq.context
          /\ rq.result.answer = rq.answer

\* the index answered, the filter dropped everything, and the question is
\* answered without the language model
C6_Witness ==
    /\ Done
    /\ rq.response # <<>>
    /\ rq.results.documents = <<>>
    /\ rq.llm_calls = 0

\* C7: retrieval against a collection that does not exist does not fail: the
\* collection is created empty on demand, query returns no documents and
\* rag_query returns confidence 0.0.
C7_MissingCollectionGivesEmptyResult ==
    (InRequest /\ rq.absent_before) =>
        /\ Done
        /\ rq.outcome = "returned"
        /\ rq.results = EmptyResults
        /\ rq.result.sources = <<>>
        /\ rq.result.confidence = Zero
        /\ (~rq.had_handle /\ ~rq.fault) =>
              /\ chroma[rq.collection] = [exists |-> TRUE, docs |-> <<>>]
              /\ rq.collection \in collections

\* a question put to a collection that did not exist, with no backend fault
C7_Witness ==
    /\ Done
    /\ rq.absent_before
    /\ ~rq.had_handle
    /\ ~rq.fault
    /\ chroma[rq.collection].exists

\* what a caller of rag_query can tell a failure by: an exception, or a
\* result that carries an error tag
TaggedFailure ==
    \/ rq.outcome = "raised"
    \/ "error" \in DOMAIN rq.result

\* C8: when the language-model service fails, rag_query yields a failure the
\* caller can tell from a generated answer; the failure is never delivered as
\* answer text.
C8_GenerationFailureIsDistinguishable ==
    (Done /\ rq.llm_failed) => TaggedFailure

\* C9: when the embedding service or the vector index fails during query, the
\* failure reaches the caller as an error, so that it can be told from a
\* retrieval that found no documents.
C9_BackendFailureIsSurfaced ==
    (Done /\ rq.backend_failed) => TaggedFailure

LogIndexes(name) == {i \in DOMAIN reg_log : reg_log[i].name = name}

Last(S) == CHOOSE i \in S : \A j \in S : j <= i

\* C10: after any sequence of register_dataset calls each name maps to one
\* dataset, get_dataset(name) is the content of the latest registration under
\* the name, and get_dataset of a name never registered is None.
C10_GetReturnsLatestRegistration ==
    /\ DOMAIN datasets = {reg_log[i].name : i \in DOMAIN reg_log}
    /\ \A name \in DatasetNames :
         IF LogIndexes(name) = {} THEN GetDataset(name) = NoneRec
         ELSE GetDataset(name) = reg_log[Last(LogIndexes(name))].df

\* a name registered twice with different contents, another never registered
C10_Witness ==
    /\ \E i, j \in DOMAIN reg_log :
         /\ i < j
         /\ reg_log[i].name = reg_log[j].name
         /\ reg_log[i].df.rows # <<>>
         /\ reg_log[j].df.rows # <<>>
         /\ reg_log[i].df # reg_log[j].df
    /\ \E name \in DatasetNames : GetDataset(name) = NoneRec


IsQuery == last_call.op = "query_dataset"
QueryOnRegistered == IsQuery /\ last_call.dataset_name \in DOMAIN last_call.before
\* the dataset a query_dataset call reads
Source == last_call.before[last_call.dataset_name]

\* C14: query_dataset on a name that is not registered returns an empty
\* result and does not raise, whatever filters, columns and limit are passed,
\* and the registry is as it was before the call.
C14_UnregisteredQueryIsEmpty ==
    (IsQuery /\ last_call.dataset_name \notin DOMAIN last_call.before) =>
        /\ last_call.result.outcome = "returned"
        /\ IsEmpty(last_call.result.frame)
        /\ datasets = last_call.before

C14_Witness ==
    /\ IsQuery
    /\ last_call.dataset_name \notin DOMAIN last_call.before
    /\ "rainfall" \in DOMAIN last_call.before
    /\ last_call.filters # <<>>
    /\ IsGiven(last_call.columns)
    /\ IsGiven(last_call.limit)
    /\ last_call.result.outcome = "returned"

\* a row satisfies an item of the filter mapping: its value in the item's
\* column is a member of the sequence, or equals the scalar
Satisfies(df, row, p) ==
    /\ HasColumn(df, p.col)
    /\ IF IsSequenceValue(p)
       THEN \E i \in DOMAIN p.values : Cell(df, row, p.col) = p.values[i]
       ELSE Cell(df, row, p.col) = p.value

RowsSatisfyingAll ==
    SelectSeq(Source.rows,
              LAMBDA row : \A i \in DOMAIN last_call.filters :
                               Satisfies(Source, row, last_call.filters[i]))

RowsSatisfyingKnown ==
    SelectSeq(Source.rows,
              LAMBDA row : \A i \in DOMAIN last_call.filters :
                               HasColumn(Source, last_call.filters[i].col) =>
                                   Satisfies(Source, row, last_call.filters[i]))

\* rows of the dataset, read on the columns of the result
OnResultColumns(rows) ==
    [i \in DOMAIN rows |->
        [j \in DOMAIN last_call.result.frame.columns |->
            Cell(Source, rows[i], last_call.result.frame.columns[j])]]

\* C15 (as stated): with no row limit, query_dataset returns exactly the rows
\* of the dataset, in their original order, that satisfy every item of the
\* filter mapping.
C15_RowsSatisfyEveryPredicate ==
    (QueryOnRegistered /\ ~IsGiven(last_call.limit)) =>
        last_call.result.frame.rows = OnResultColumns(RowsSatisfyingAll)

\* C15 (amended): with no row limit, query_dataset returns exactly the rows
\* of the dataset, in their original order, that satisfy every item of the
\* filter mapping whose column the dataset has; an item on a column the
\* dataset lacks is ignored.
C15_RowsSatisfyEveryKnownPredicate ==
    (QueryOnRegistered /\ ~IsGiven(last_call.limit)) =>
        last_call.result.frame.rows = OnResultColumns(RowsSatisfyingKnown)

C15_Witness ==
    /\ QueryOnRegistered
    /\ ~IsGiven(last_call.limit)
    /\ Len(last_call.filters) = 2
    /\ Len(last_call.result.frame.rows) = 1
    /\ Len(Source.rows) = 3
    /\ Len(ApplyFilter(Source, last_call.filters[1]).rows) = 2

\* C16: when a column list is passed, the columns of the result are exactly
\* the requested columns the dataset has, in the requested order, also when
\* the dataset has none of them.
C16_ColumnsAreRequestedExisting ==
    (QueryOnRegistered /\ IsGiven(last_call.columns)) =>
        last_call.result.frame.columns =
            SelectSeq(ArgOf(last_call.columns),
                      LAMBDA col : HasColumn(Source, col))

\* C17: when a row limit >= 0 is passed, the result is the first `limit` rows
\* of the filtered and projected result, so at most `limit` rows.
C17_LimitIsPrefix ==
    (QueryOnRegistered /\ IsGiven(last_call.limit)
                       /\ ArgOf(last_call.limit) >= 0) =>
        LET unlimited == QueryDataset(last_call.before, last_call.dataset_name,
                                      last_call.filters, last_call.columns,
                                      NoArg).frame
            n == ArgOf(last_call.limit)
        IN  /\ Len(last_call.result.frame.rows) <= n
            /\ last_call.result.frame.rows =
                   SubSeq(unlimited.rows, 1, Min(n, Len(unlimited.rows)))


IsMerge == last_call.op = "merge_datasets"
MergeOnRegistered ==
    /\ IsMerge
    /\ last_call.left_name \in DOMAIN last_call.before
    /\ last_call.right_name \in DOMAIN last_call.before
LeftSource == last_call.before[last_call.left_name]
RightSource == last_call.before[last_call.right_name]

\* C11: merge_datasets on two registered datasets that have no column in
\* common, called with no key list, fails with NoJoinKeyError; it does not
\* return a result.
C11_NoCommonColumnRaises ==
    (MergeOnRegistered /\ ~IsGiven(last_call.on)
        /\ Range(LeftSource.columns) \cap Range(RightSource.columns) = {}) =>
        /\ last_call.result.outcome = "raised"
        /\ last_call.result.error = "NoJoinKeyError"

\* C12: merge_datasets called with a key list that names a column one of
\* the two datasets lacks fails with an error its caller sees; it does not
\* return a result.
C12_MissingKeyRaises ==
    (MergeOnRegistered /\ IsGiven(last_call.on)
        /\ \E k \in DOMAIN ArgOf(last_call.on) :
               \/ ~HasColumn(LeftSource, ArgOf(last_call.on)[k])
               \/ ~HasColumn(RightSource, ArgOf(last_call.on)[k])) =>
        last_call.result.outcome = "raised"


IsAggregate == last_call.op = "aggregate_data"

\* C13: aggregate_data fails with InvalidGroupColumnsError whenever the
\* dataset has none of the requested group-by columns, for every filter, also
\* one that leaves no rows; it does not return a result.
C13_NoValidGroupColumnRaises ==
    (IsAggregate /\ last_call.dataset_name \in DOMAIN last_call.before
        /\ \A g \in DOMAIN last_call.group_by :
               ~HasColumn(Source, last_call.group_by[g])) =>
        /\ last_call.result.outcome = "raised"
        /\ last_call.result.error = "InvalidGroupColumnsError"


IsCorrelation == last_call.op = "calculate_correlation"
First == last_call.before[last_call.dataset1_name]
Second == last_call.before[last_call.dataset2_name]

CorrelationOnRegistered ==
    /\ IsCorrelation
    /\ last_call.dataset1_name \in DOMAIN last_call.before
    /\ last_call.dataset2_name \in DOMAIN last_call.before

\* a calculate_correlation call on two registered datasets, each of which
\* has the value column named for it
CorrelationOnOwnColumns ==
    /\ CorrelationOnRegistered
    /\ HasColumn(First, last_call.value_col1)
    /\ HasColumn(Second, last_call.value_col2)

\* the pairs of a row of the first and a row of the second dataset that
\* agree on every key
JoinedPairs ==
    IF ~CorrelationOnRegistered THEN {}
    ELSE IF \E k \in DOMAIN last_call.merge_on :
           \/ ~HasColumn(First, last_call.merge_on[k])
           \/ ~HasColumn(Second, last_call.merge_on[k])
    THEN {}
    ELSE {ij \in (DOMAIN First.rows) \X (DOMAIN Second.rows) :
             \A k \in DOMAIN last_call.merge_on :
                 Cell(First, First.rows[ij[1]], last_call.merge_on[k])
                     = Cell(Second, Second.rows[ij[2]], last_call.merge_on[k])}

\* the paired observations: joined pairs with both values present
PairedObservations ==
    {ij \in JoinedPairs :
        /\ ~IsNull(Cell(First, First.rows[ij[1]], last_call.value_col1))
        /\ ~IsNull(Cell(Second, Second.rows[ij[2]], last_call.value_col2))}

\* fewer than 2 paired observations: a dataset is not registered, a value
\* column is in neither dataset, or fewer than 2 joined pairs have both values
FewPairedObservations ==
    /\ IsCorrelation
    /\ \/ ~CorrelationOnRegistered
       \/ /\ CorrelationOnRegistered
          /\ \/ ~HasColumn(First, last_call.value_col1)
                    /\ ~HasColumn(Second, last_call.value_col1)
             \/ ~HasColumn(First, last_call.value_col2)
                    /\ ~HasColumn(Second, last_call.value_col2)
       \/ CorrelationOnOwnColumns /\ Cardinality(PairedObservations) < 2

\* C18 (as stated): calculate_correlation returns coefficient 0.0 with an
\* empty detail dataset, and does not raise, whenever fewer than 2 paired
\* observations remain after joining and dropping nulls.
C18_FewPairsGiveEmptySentinel ==
    FewPairedObservations =>
        /\ last_call.result.outcome = "returned"
        /\ last_call.result.correlation = ZeroCoef
        /\ IsEmpty(last_call.result.frame)

\* C18 (amended): calculate_correlation returns coefficient 0.0, and does not
\* raise, whenever fewer than 2 paired observations remain after joining and
\* dropping nulls; the detail dataset is empty exactly when the join has no
\* row, and has one row per joined pair otherwise.
C18_FewPairsGiveZeroCoefficient ==
    FewPairedObservations =>
        /\ last_call.result.outcome = "returned"
        /\ last_call.result.correlation = ZeroCoef
        /\ IsEmpty(last_call.result.frame) <=> JoinedPairs = {}
        /\ Len(last_call.result.frame.rows) = Cardinality(JoinedPairs)

C18_Witness ==
    /\ CorrelationOnOwnColumns
    /\ Cardinality(JoinedPairs) = 3
    /\ Cardinality(PairedObservations) = 1
    /\ last_call.result.correlation = ZeroCoef
    /\ Len(last_call.result.frame.rows) = 3

\* C19: calculate_correlation(A, B, valCol1, valCol2, keys) and
\* calculate_correlation(B, A, valCol2, valCol1, keys) return the same
\* coefficient, also when both datasets have a non-key column of one name.
C19_CorrelationIsSymmetric ==
    IsCorrelation =>
        last_call.result.correlation =
            CalculateCorrelation(last_call.before,
                                 last_call.dataset2_name, last_call.dataset1_name,
                                 last_call.value_col2, last_call.value_col1,
                                 last_call.merge_on).correlation

C19_Witness ==
    /\ CorrelationOnOwnColumns
    /\ last_call.dataset1_name # last_call.dataset2_name
    /\ last_call.merge_on = <<"state">>
    /\ HasColumn(First, "area") /\ HasColumn(Second, "area")
    /\ last_call.value_col1 = "area"
    /\ last_call.value_col2 # "area"
    /\ Cardinality(PairedObservations) = 3
    /\ last_call.result.correlation.sign # 0
    /\ last_call.result.correlation.num < last_call.result.correlation.den


IsTimeSeries == last_call.op = "time_series_analysis"

\* the rows among I that have a time and a value
Observations(I) ==
    {i \in I : /\ ~IsNaT(TimeOf(Source, i, last_call.time_column))
               /\ ~IsNull(Cell(Source, Source.rows[i], last_call.value_column))}

\* the first and last observation of an ascending time order of I; rows of
\* one time come in either order
EndPoints(I) ==
    {fl \in Observations(I) \X Observations(I) :
        /\ \A o \in Observations(I) :
              /\ TimeOf(Source, fl[1], last_call.time_column).ns
                     <= TimeOf(Source, o, last_call.time_column).ns
              /\ TimeOf(Source, o, last_call.time_column).ns
                     <= TimeOf(Source, fl[2], last_call.time_column).ns
        /\ fl[1] = fl[2] => Cardinality(Observations(I)) = 1}

\* the labels the two-point rule allows for the rows I
TwoPointRule(I) ==
    IF Observations(I) = {} THEN {"decreasing"}
    ELSE {IF Cell(Source, Source.rows[fl[2]], last_call.value_column).num
                > Cell(Source, Source.rows[fl[1]], last_call.value_column).num
          THEN "increasing" ELSE "decreasing" : fl \in EndPoints(I)}

\* C20: the trend label of time_series_analysis, overall and of each group,
\* is "increasing" exactly when the last non-null value in ascending time
\* order is greater than the first one, and "decreasing" otherwise; the rows
\* (2020, 800), (2021, 850) give min 800, max 850, mean 825 and "increasing".
C20_TrendIsTwoPointRule ==
    IsTimeSeries =>
        /\ last_call.result.kind = "statistics" =>
               last_call.result.statistics.trend
                   \in TwoPointRule(DOMAIN Source.rows)
        /\ last_call.result.kind = "groups" =>
               \A g \in DOMAIN last_call.result.groups :
                   last_call.result.groups[g].statistics.trend
                       \in TwoPointRule(
                             {i \in DOMAIN Source.rows :
                                 Cell(Source, Source.rows[i],
                                      ArgOf(last_call.group_by))
                                     = last_call.result.groups[g].name})
        /\ (/\ last_call.dataset_name \in DOMAIN last_call.before
            /\ Source.rows = << <<Str("A"), Num(2020), Num(800)>>,
                                <<Str("A"), Num(2021), Num(850)>> >>
            /\ last_call.time_column = "year"
            /\ last_call.value_column = "mm"
            /\ ~IsGiven(last_call.group_by)) =>
               /\ last_call.result.kind = "statistics"
               /\ last_call.result.statistics.min = 800
               /\ last_call.result.statistics.max = 850
               /\ last_call.result.statistics.mean = Fraction(825, 1)
               /\ last_call.result.statistics.trend = "increasing"

----------------------------------------------------------------------------
(* rag_query: the context and the sources *)

\* the entries of the index response that query keeps, in the index's order
KeptEntries ==
    SelectSeq(rq.response,
              LAMBDA r : Scale - r.distance >= similarity_threshold)

AnsweredFromContext ==
    Done /\ rq.outcome = "returned" /\ rq.result # NoInfoResult

\* C21: the context has one section per retrieved document, numbered from 1
\* in the order of retrieval, headed by the dataset of the document's
\* metadata or by "Unknown" when the metadata names none; the i-th source is
\* the metadata of the i-th section's document.
C21_ContextTracksRetrieval ==
    AnsweredFromContext =>
        /\ Len(rq.result.context) = Len(KeptEntries)
        /\ Len(rq.result.sources) = Len(KeptEntries)
        /\ \A i \in DOMAIN KeptEntries :
             /\ rq.result.context[i].source = i
             /\ rq.result.context[i].document = KeptEntries[i].document
             /\ rq.result.context[i].dataset =
                    IF KeptEntries[i].metadata.has_dataset
                    THEN KeptEntries[i].metadata.dataset ELSE "Unknown"
             /\ rq.result.sources[i] = KeptEntries[i].metadata

\* an answer from two sections, the first of a document without dataset label
C21_Witness ==
    /\ AnsweredFromContext
    /\ Len(rq.result.context) = 2
    /\ rq.result.context[1].dataset = "Unknown"
    /\ rq.result.context[2].dataset # "Unknown"

----------------------------------------------------------------------------
(* create_collection and add_documents, one call after the other *)

IsCreate == last_index # NoCall /\ last_index.op = "create_collection"
IsAdd == last_index # NoCall /\ last_index.op = "add_documents"
Collection == chroma[last_index.collection]

\* C22: create_collection(name, recreate=True) fails only when the creation
\* itself fails, whether or not the collection existed, and leaves a
\* collection holding none of the documents stored under the name before;
\* with recreate=False every document stored before is kept.
C22_RecreateDropsEarlierDocuments ==
    IsCreate =>
        /\ last_index.raised => last_index.create_failed
        /\ ~last_index.raised =>
             /\ Collection.exists
             /\ last_index.recreate =>
                  \A i \in DOMAIN Collection.docs :
                      \A j \in DOMAIN last_index.before.docs :
                          Collection.docs[i] # last_index.before.docs[j]
             /\ ~last_index.recreate /\ last_index.before.exists =>
                  Collection.docs = last_index.before.docs

\* the documents the last add_documents call put into the collection
Inserted ==
    SubSeq(Collection.docs, Len(last_index.before.docs) + 1, Len(Collection.docs))

\* doc_n, doc_(n+1), ..., doc_(n+k-1)
ExpectedIds(n, k) == [i \in 1..k |-> "doc_" \o ToString(n + i - 1)]

\* C23: add_documents without ids for k texts on a collection of n documents
\* hands collection.add exactly the ids doc_n .. doc_(n+k-1); what the call
\* inserts is, in input order, the i-th text under the i-th of these ids, and
\* all k texts when none of the ids is taken.
C23_SynthesizedIdsFollowCount ==
    (IsAdd /\ last_index.call.ids = NoList /\ last_index.ids # NoList) =>
        LET n == Len(last_index.before.docs)
            k == Len(last_index.call.documents)
            taken == {last_index.before.docs[j].id :
                          j \in DOMAIN last_index.before.docs}
        IN  /\ last_index.ids = ExpectedIds(n, k)
            /\ Collection.docs = last_index.before.docs \o Inserted
            /\ \E f \in [DOMAIN Inserted -> 1..k] :
                 /\ \A i, j \in DOMAIN Inserted : i < j => f[i] < f[j]
                 /\ \A i \in DOMAIN Inserted :
                      /\ Inserted[i].id = ExpectedIds(n, k)[f[i]]
                      /\ Inserted[i].document = last_index.call.documents[f[i]]
            /\ (~last_index.raised
                  /\ \A i \in 1..k : ExpectedIds(n, k)[i] \notin taken)
                   => Len(Inserted) = k

\* a text added without ids to a collection of one document
C23_Witness ==
    /\ IsAdd
    /\ last_index.call.ids = NoList
    /\ ~last_index.raised
    /\ Len(last_index.before.docs) = 1
    /\ Len(Inserted) = 1
    /\ Inserted[1].id = "doc_1"

\* C30: after any sequence of add_documents and create_collection calls made
\* one after the other, the ids in the collection are pairwise distinct and
\* the collection holds as many documents as returned add_documents calls
\* have added texts since the last recreation, also when calls with their
\* own ids and calls with synthesized ids are mixed.  (Sequences in which a
\* backend call failed are left out: none is needed to refute it.)
C30_IdsDistinctAndCountMatches ==
    (last_index # NoCall /\ ~last_index.faulted) =>
        /\ \A i, j \in DOMAIN Collection.docs :
               i # j => Collection.docs[i].id # Collection.docs[j].id
        /\ Len(Collection.docs) = last_index.added

----------------------------------------------------------------------------
(* time_series_analysis: rows without a time *)

\* the rows that have a time and a value, in the order sort_values gave them
TimedRows ==
    SelectSeq(last_call.order,
              LAMBDA i : /\ ~IsNaT(TimeOf(Source, i, last_call.time_column))
                         /\ ~IsNull(Cell(Source, Source.rows[i],
                                         last_call.value_column)))

ValueAt(i) == Cell(Source, Source.rows[i], last_call.value_column).num

\* C24: a row whose time cannot be coerced takes no part in the reported time
\* range nor in the time ordering: the trend compares the values of the
\* first and the last row that have a time.
C24_InvalidTimesAreExcluded ==
    (IsTimeSeries /\ last_call.result.kind = "statistics") =>
        /\ \A i \in DOMAIN Source.rows :
               LET t == TimeOf(Source, i, last_call.time_column)
               IN  ~IsNaT(t) =>
                       /\ last_call.result.header.time_range.start.ns <= t.ns
                       /\ t.ns <= last_call.result.header.time_range.end.ns
        /\ TimedRows # <<>> =>
               last_call.result.statistics.trend =
                   IF ValueAt(TimedRows[Len(TimedRows)]) > ValueAt(TimedRows[1])
                   THEN "increasing" ELSE "decreasing"

----------------------------------------------------------------------------
(* calculate_correlation: where the value columns come from *)

\* C25: the column correlated for value_col1 comes from dataset1 and the one
\* for value_col2 from dataset2: when a value column is missing from its own
\* dataset no coefficient is computed from a column of that name in the
\* other dataset, the call gives the 0.0 of a failed calculation.
C25_ValueColumnsComeFromOwnDataset ==
    (/\ CorrelationOnRegistered
     /\ \/ ~HasColumn(First, last_call.value_col1)
        \/ ~HasColumn(Second, last_call.value_col2)) =>
        last_call.result.correlation = ZeroCoef

----------------------------------------------------------------------------
(* query: the threshold *)

\* the results a come, in their order, among the results b
IsSubResults(a, b) ==
    \E f \in [DOMAIN a.ids -> DOMAIN b.ids] :
        /\ \A i, j \in DOMAIN a.ids : i < j => f[i] < f[j]
        /\ \A i \in DOMAIN a.ids :
             /\ a.ids[i] = b.ids[f[i]]
             /\ a.documents[i] = b.documents[f[i]]
             /\ a.metadatas[i] = b.metadatas[f[i]]
             /\ a.distances[i] = b.distances[f[i]]

\* C27: for one index response, every result query returns under the
\* configured threshold is returned under every lower threshold too, in the
\* same relative order.
C27_LowerThresholdKeepsResults ==
    InRequest =>
        \A t2 \in Thresholds :
            t2 <= similarity_threshold =>
                IsSubResults(rq.results, FilterByThreshold(rq.response, t2))

\* a lower threshold under which the same response gives one result more
C27_Witness ==
    /\ InRequest
    /\ rq.results.ids # <<>>
    /\ \E t2 \in Thresholds :
         /\ t2 < similarity_threshold
         /\ Len(FilterByThreshold(rq.response, t2).ids) > Len(rq.results.ids)

----------------------------------------------------------------------------
(* list_datasets *)

\* C29: after any sequence of register_dataset calls, list_datasets names
\* exactly the datasets get_dataset returns, once each, and the column list
\* and the shape listed for a name are those of the dataset now registered
\* under it.
C29_ListDescribesCurrentDatasets ==
    /\ {e.name : e \in ListDatasets}
           = {name \in DatasetNames : GetDataset(name) # NoneRec}
    /\ \A e, o \in ListDatasets : e.name = o.name => e = o
    /\ \A e \in ListDatasets :
         /\ e.meta.columns = GetDataset(e.name).columns
         /\ e.meta.shape = <<Len(GetDataset(e.name).rows),
                             Len(GetDataset(e.name).columns)>>

\* a name registered again with a dataset of other columns and another
\* shape, while another name is not registered
C29_Witness ==
    /\ \E i, j \in DOMAIN reg_log :
         /\ i < j
         /\ reg_log[i].name = reg_log[j].name
         /\ reg_log[i].df.columns # reg_log[j].df.columns
         /\ Len(reg_log[i].df.rows) # Len(reg_log[j].df.rows)
         /\ reg_log[j].df.rows # <<>>
         /\ \A k \in DOMAIN reg_log : k > j => reg_log[k].name # reg_log[j].name
    /\ \E name \in DatasetNames : GetDataset(name) = NoneRec
    /\ ListDatasets # {}

----------------------------------------------------------------------------
(* fetch_paginated *)

\* C26: whatever pages the API returns, fetch_paginated asks for one page
\* per 1000 of offset, stops, and returns at most max_records records, also
\* for a max_records that is not a multiple of 1000.
C26_RecordsWithinCap ==
    /\ pager.pc # "idle" =>
         /\ pager.offset <= batch_size * Len(pager.all_data)
         /\ pager.offset < pager.max_records + batch_size
    /\ pager.pc = "done" => pager.result <= pager.max_records

\* every fetch_paginated call comes to its return
FetchTerminates == <>(pager.pc = "done")

----------------------------------------------------------------------------
(* index_data *)

Succeeded(w) == ingest.requests[w].status = "success"

\* the documents of the dataset of request w in gov_datasets
DocumentsOf(w) ==
    {i \in DOMAIN chroma[ScenarioCollection].docs :
        chroma[ScenarioCollection].docs[i].metadata = Meta(IngestName(w))}

Indexed(w) == Cardinality(DocumentsOf(w)) = ingest.requests[w].rows

\* C28: whenever index_data has answered success for a dataset, the dataset
\* is registered, the answer was given with the index write still to be
\* run, and the background task eventually has one document per fetched row
\* in gov_datasets.  (A service without RAG pipeline and a task whose
\* backend call failed are left out: neither is needed to refute it.)
C28_SuccessIsEventuallyIndexed ==
    \A w \in Workers :
        [](Succeeded(w) /\ ingest.services.rag_pipeline =>
              /\ IngestName(w) \in DOMAIN datasets
              /\ ingest.requests[w].task_at_response = "start"
              /\ <>(Indexed(w) \/ adders[w].fault))

====
